---- MODULE Spec2Model ----
(***************************************************************************)
(* A model of the NISO TQQC optimisation engine (niso_tqqc), its           *)
(* convergence controller, dynamic inner-loop controller and statistical   *)
(* test, and of the state-vector simulator backend (niso_backend).         *)
(*                                                                         *)
(* Numbers.  The program computes in f64.  The model computes exactly, in  *)
(* fixed point and in rationals:                                           *)
(*   - a parity or an improvement is an integer count of 1/ParityScale;    *)
(*   - a delta or a step is an integer count of 1/DeltaScale;              *)
(*   - a noise level or a confidence level is a count of 1/LevelScale;     *)
(*   - a threshold is a rational <<n, d>> (n/d, d > 0), because the depth  *)
(*     correction divides by N-1;                                          *)
(*   - a z critical value is an integer count of 1/ZScale.                 *)
(***************************************************************************)
EXTENDS Integers, Sequences, FiniteSets, TLC

\* ------------------------------------------------------------------------
\* Scales of the fixed-point representation
\* ------------------------------------------------------------------------
ParityScale == 100
DeltaScale == 1000000
LevelScale == 1000
ZScale == 1000

\* ------------------------------------------------------------------------
\* Exact arithmetic helpers
\* ------------------------------------------------------------------------
Abs(x) == IF x < 0 THEN -x ELSE x

Min2(a, b) == IF a < b THEN a ELSE b

Max2(a, b) == IF a > b THEN a ELSE b

\* usize::saturating_sub
SatSub(a, b) == IF a > b THEN a - b ELSE 0

RECURSIVE Pow(_, _)
Pow(b, e) == IF e = 0 THEN 1 ELSE b * Pow(b, e - 1)

\* a/b > c/d for a, c >= 0 and b, d > 0, by the continued-fraction expansion:
\* no product is formed, so the comparison is exact for every 32-bit operand.
RECURSIVE FracGT(_, _, _, _)
FracGT(a, b, c, d) ==
    LET q1 == a \div b
        q2 == c \div d
        r1 == a % b
        r2 == c % d
    IN  IF q1 # q2 THEN q1 > q2
        ELSE IF r1 = 0 THEN FALSE
        ELSE IF r2 = 0 THEN TRUE
        ELSE FracGT(d, r2, b, r1)

\* Rationals <<n, d>> with n >= 0 and d > 0
RatLT(x, y) == FracGT(y[1], y[2], x[1], x[2])

RatEq(x, y) == ~RatLT(x, y) /\ ~RatLT(y, x)

\* f64::max on two non-negative rationals
RatMax(x, y) == IF RatLT(x, y) THEN y ELSE x

RECURSIVE GCD(_, _)
GCD(a, b) == IF b = 0 THEN a ELSE GCD(b, a % b)

\* floor(x / y) for x >= 0, y > 0: floor((x1 * y2) / (x2 * y1)), with the common
\* factors cancelled first so that the products stay in range
RatFloorDiv(x, y) ==
    LET g1 == Max2(GCD(x[1], y[1]), 1)
        g2 == Max2(GCD(y[2], x[2]), 1)
    IN  ((x[1] \div g1) * (y[2] \div g2)) \div ((x[2] \div g2) * (y[1] \div g1))

\* |x| for a signed rational <<n, d>>, d > 0
RatAbs(x) == <<Abs(x[1]), x[2]>>

\* A parity-scale integer as a rational
ParityRat(p) == <<p, ParityScale>>

\* ------------------------------------------------------------------------
\* niso_core::constants::tqqc
\* ------------------------------------------------------------------------
\* THRESHOLD_5Q = 0.030
THRESHOLD_5Q == <<30, 1000>>

\* the literal 0.040 of Convergence::from_noise
THRESHOLD_HIGH_NOISE == <<40, 1000>>

\* the literal 0.02 of Convergence::from_noise, in LevelScale units
NOISE_SPLIT == 20

REF_QUBITS == 5

circuit_depth(num_qubits) == IF num_qubits > 0 THEN num_qubits - 1 ELSE 0

\* depth / ref_depth as a rational; 1.0 when the reference depth is 0
depth_ratio(num_qubits) ==
    LET depth == circuit_depth(num_qubits)
        ref_depth == circuit_depth(REF_QUBITS)
    IN  IF ref_depth > 0 THEN <<depth, ref_depth>> ELSE <<1, 1>>

threshold_for_qubits(num_qubits) ==
    LET ratio == depth_ratio(num_qubits)
    IN  IF ratio[1] > 0
        THEN <<THRESHOLD_5Q[1] * ratio[2], THRESHOLD_5Q[2] * ratio[1]>>
        ELSE THRESHOLD_5Q

\* ------------------------------------------------------------------------
\* niso_tqqc::convergence::Convergence
\* ------------------------------------------------------------------------
CONVERGENCE_WINDOW == 3

\* depth_correction by the ratio of qubit counts instead of depths
depth_correction_by_qubits(qubits, ref_qubits, ref_threshold) ==
    IF qubits > 0 /\ ref_qubits > 0
    THEN <<ref_threshold[1] * ref_qubits, ref_threshold[2] * qubits>>
    ELSE ref_threshold

depth_correction(qubits, ref_qubits, ref_threshold) ==
    LET d_n == SatSub(qubits, 1)
        d_ref == SatSub(ref_qubits, 1)
    IN  IF d_n > 0 /\ d_ref > 0
        THEN <<ref_threshold[1] * d_ref, ref_threshold[2] * d_n>>
        ELSE ref_threshold

\* threshold_cum = threshold_abs * 1.5
Convergence_new(qubits, base_threshold) ==
    LET threshold_abs == depth_correction(qubits, REF_QUBITS, base_threshold)
    IN  [ window |-> CONVERGENCE_WINDOW,
          threshold_abs |-> threshold_abs,
          threshold_cum |-> <<threshold_abs[1] * 3, threshold_abs[2] * 2>>,
          history |-> <<>>,
          cumulative |-> 0 ]

from_noise(qubits, noise) ==
    LET base == IF noise <= NOISE_SPLIT THEN THRESHOLD_5Q ELSE THRESHOLD_HIGH_NOISE
    IN  Convergence_new(qubits, base)

\* push_back, add to the running sum, then pop_front while the deque is
\* longer than the window
RECURSIVE TrimFront(_, _)
TrimFront(h, window) ==
    IF Len(h) > window THEN TrimFront(Tail(h), window) ELSE h

\* push that never drops the oldest improvement
push_untrimmed(self, improvement) ==
    [ self EXCEPT !.history = Append(self.history, improvement),
                  !.cumulative = self.cumulative + improvement ]

push(self, improvement) ==
    [ self EXCEPT !.history = TrimFront(Append(self.history, improvement), self.window),
                  !.cumulative = self.cumulative + improvement ]

window_condition(self) ==
    IF Len(self.history) < self.window
    THEN FALSE
    ELSE \A i \in 1..Len(self.history) :
            RatLT(ParityRat(Abs(self.history[i])), self.threshold_abs)

cumulative_condition(self) ==
    RatLT(ParityRat(Abs(self.cumulative)), self.threshold_cum)

check(self) == window_condition(self) /\ cumulative_condition(self)

\* reset that keeps the running sum
reset_history_only(self) == [ self EXCEPT !.history = <<>> ]

reset(self) == [ self EXCEPT !.history = <<>>, !.cumulative = 0 ]

threshold(self) == self.threshold_abs

\* ------------------------------------------------------------------------
\* niso_tqqc::convergence::DynamicInner
\* ------------------------------------------------------------------------
SAFETY_CAP == 5

\* decay_rate = 0.9 = DECAY_NUM / DECAY_DEN
DECAY_NUM == 9

DECAY_DEN == 10

\* the literal 1e-9 of compute_count, as a rational
TAU_FLOOR == <<1, 1000000000>>

DynamicInner_new(inner_max) == [ inner_max |-> inner_max, safety_cap |-> SAFETY_CAP ]

\* compute_count without the safety cap
compute_count_uncapped(self, last_improve, thr) ==
    LET tau == RatMax(thr, TAU_FLOOR)
        raw == 1 + 2 * RatFloorDiv(RatAbs(last_improve), tau)
    IN  Min2(Max2(raw, 1), self.inner_max)

\* last_improve is a signed rational
compute_count(self, last_improve, thr) ==
    LET tau == RatMax(thr, TAU_FLOOR)
        raw == 1 + 2 * RatFloorDiv(RatAbs(last_improve), tau)
        capped == Min2(raw, self.safety_cap)
    IN  Min2(Max2(capped, 1), self.inner_max)

\* base_step * 0.9^j
\* compute_step without the decay
compute_step_undecayed(j, base_step) == base_step

compute_step(j, base_step) == (base_step * Pow(DECAY_NUM, j)) \div Pow(DECAY_DEN, j)

\* ------------------------------------------------------------------------
\* niso_tqqc::stat_test::StatisticalTest
\* ------------------------------------------------------------------------
\* niso_core::constants::stats, in ZScale units
Z_CRIT_90 == 1645

Z_CRIT_95 == 1960

Z_CRIT_975 == 2240

Z_CRIT_99 == 2575

\* confidence levels and adjustments of fixed_critical / adaptive_critical,
\* in LevelScale units
LEVEL_99 == 990

LEVEL_975 == 975

LEVEL_95 == 950

LEVEL_90 == 900

ADJ_HIGH_NOISE == 25

ADJ_LOW_SHOTS == 25

ADJ_HIGH_SHOTS == 50

LOW_SHOTS_THRESHOLD == 4096

HIGH_SHOTS_THRESHOLD == 16384

StatisticalTest_new(mode, level) == [ mode |-> mode, level |-> level ]

\* The square of the z-score as a rational (z itself is a square root):
\* z^2 = (p+ - p-)^2 / ((1 - p+^2)/N + (1 - p-^2)/N).  The two guards return
\* z = 0: shots = 0, and se < 1e-10, which on the parity grid is se = 0.
\* compute_z_from_parity with the standard error floored at a tiny value
\* instead of z = 0
compute_z_from_parity_floored(parity_plus, parity_minus, shots) ==
    LET var_sum == (ParityScale * ParityScale - parity_plus * parity_plus)
                   + (ParityScale * ParityScale - parity_minus * parity_minus)
        diff == Abs(parity_plus - parity_minus)
    IN  <<diff * diff * Max2(shots, 1), Max2(var_sum, 1)>>

compute_z_from_parity(parity_plus, parity_minus, shots) ==
    IF shots = 0 THEN <<0, 1>>
    ELSE LET var_sum == (ParityScale * ParityScale - parity_plus * parity_plus)
                        + (ParityScale * ParityScale - parity_minus * parity_minus)
             diff == Abs(parity_plus - parity_minus)
         IN  IF var_sum = 0 THEN <<0, 1>>
             ELSE <<diff * diff * shots, var_sum>>

fixed_critical(self) ==
    IF self.level >= LEVEL_99 THEN Z_CRIT_99
    ELSE IF self.level >= LEVEL_95 THEN Z_CRIT_95
    ELSE Z_CRIT_90

\* adaptive_critical without the low-shots adjustment
adaptive_critical_ignoring_low_shots(self, shots, noise) ==
    LET l1 == IF noise > NOISE_SPLIT THEN self.level + ADJ_HIGH_NOISE ELSE self.level
        l3 == IF shots >= HIGH_SHOTS_THRESHOLD THEN l1 - ADJ_HIGH_SHOTS ELSE l1
        adjusted_level == Min2(Max2(l3, LEVEL_90), LEVEL_99)
    IN  IF adjusted_level >= LEVEL_99 THEN Z_CRIT_99
        ELSE IF adjusted_level >= LEVEL_975 THEN Z_CRIT_975
        ELSE IF adjusted_level >= LEVEL_95 THEN Z_CRIT_95
        ELSE Z_CRIT_90

adaptive_critical(self, shots, noise) ==
    LET l1 == IF noise > NOISE_SPLIT THEN self.level + ADJ_HIGH_NOISE ELSE self.level
        l2 == IF shots < LOW_SHOTS_THRESHOLD THEN l1 + ADJ_LOW_SHOTS ELSE l1
        l3 == IF shots >= HIGH_SHOTS_THRESHOLD THEN l2 - ADJ_HIGH_SHOTS ELSE l2
        adjusted_level == Min2(Max2(l3, LEVEL_90), LEVEL_99)
    IN  IF adjusted_level >= LEVEL_99 THEN Z_CRIT_99
        ELSE IF adjusted_level >= LEVEL_975 THEN Z_CRIT_975
        ELSE IF adjusted_level >= LEVEL_95 THEN Z_CRIT_95
        ELSE Z_CRIT_90

z_critical(self, shots, noise) ==
    IF self.mode = "Fixed" THEN fixed_critical(self)
    ELSE adaptive_critical(self, shots, noise)

\* z_score > z_critical, decided on the squares (both sides are >= 0)
ZGreater(z_sq, z_crit) == FracGT(z_sq[1], z_sq[2], z_crit * z_crit, ZScale * ZScale)

TestResult_tie ==
    [ is_significant |-> FALSE, z_sq |-> <<0, 1>>, z_critical |-> 0,
      direction |-> "None", is_tie |-> TRUE ]

\* const TIE_EPSILON: f64 = 1e-9, as a rational
TIE_EPSILON == <<1, 1000000000>>

\* test without its tie branch: equal parities go through the z-test
test_without_tie(self, parity_plus, parity_minus, shots, noise) ==
    LET z_sq == compute_z_from_parity(parity_plus, parity_minus, shots)
        z_crit == z_critical(self, shots, noise)
    IN  IF ZGreater(z_sq, z_crit)
        THEN [ is_significant |-> TRUE, z_sq |-> z_sq, z_critical |-> z_crit,
               direction |-> IF parity_plus > parity_minus THEN "Plus" ELSE "Minus",
               is_tie |-> FALSE ]
        ELSE [ is_significant |-> FALSE, z_sq |-> z_sq, z_critical |-> z_crit,
               direction |-> "None", is_tie |-> FALSE ]

\* StatisticalTest::test: a tie when |p+ - p-| < TIE_EPSILON (on the parity
\* grid, when p+ = p-), else significant when z_score > z_critical
test(self, parity_plus, parity_minus, shots, noise) ==
    IF RatLT(<<Abs(parity_plus - parity_minus), ParityScale>>, TIE_EPSILON)
    THEN TestResult_tie
    ELSE LET z_sq == compute_z_from_parity(parity_plus, parity_minus, shots)
             z_crit == z_critical(self, shots, noise)
         IN  IF ZGreater(z_sq, z_crit)
             THEN [ is_significant |-> TRUE, z_sq |-> z_sq, z_critical |-> z_crit,
                    direction |-> IF parity_plus > parity_minus THEN "Plus" ELSE "Minus",
                    is_tie |-> FALSE ]
             ELSE [ is_significant |-> FALSE, z_sq |-> z_sq, z_critical |-> z_crit,
                    direction |-> "None", is_tie |-> FALSE ]

\* ------------------------------------------------------------------------
\* rand::rngs::StdRng, abstracted to a small deterministic generator: the
\* state after seeding depends on the seed alone, every draw advances it.
\* ------------------------------------------------------------------------
RngMod == 16

seed_from_u64(seed) == seed % RngMod

NextRng(r) == (5 * r + 3) % RngMod

\* rng.gen::<f64>() as the rational GenF64(r) / RngMod in [0, 1), drawn from
\* the advanced state
GenF64(r) == NextRng(r)

\* Gate: a name and the qubits it acts on
MkGate(name, qs) == [ name |-> name, qubits |-> qs ]

\* Gate::qubits
qubits(gate) == gate.qubits

\* Gate::is_single_qubit
is_single_qubit(gate) == gate.name \in {"H", "X", "Y", "Z", "S", "Sdg"}

\* Gate::is_two_qubit
is_two_qubit(gate) == gate.name \in {"Cnot", "Cz", "Swap"}

\* ------------------------------------------------------------------------
\* niso_core::circuit::Circuit and niso_core::builder::CircuitBuilder
\* ------------------------------------------------------------------------
\* Circuit::new
Circuit_new(num_qubits) == [ num_qubits |-> num_qubits, gates |-> <<>> ]

\* add_gate that pushes the gate without looking at its qubits
add_gate_unchecked(self, gate) ==
    [ ok |-> TRUE, circuit |-> [ self EXCEPT !.gates = Append(@, gate) ] ]

\* Circuit::add_gate: the circuit afterwards and whether the call returned Ok
add_gate(self, gate) ==
    IF \E i \in DOMAIN qubits(gate) : qubits(gate)[i] >= self.num_qubits
    THEN [ ok |-> FALSE, circuit |-> self ]
    ELSE [ ok |-> TRUE, circuit |-> [ self EXCEPT !.gates = Append(@, gate) ] ]

\* Circuit::validate_gates
validate_gates(self) ==
    \A k \in DOMAIN self.gates :
        \A i \in DOMAIN qubits(self.gates[k]) :
            qubits(self.gates[k])[i] < self.num_qubits

\* Circuit::from_gates: Ok(circuit) or the error of validate_gates
from_gates(num_qubits, gates) ==
    LET circuit == [ num_qubits |-> num_qubits, gates |-> gates ]
    IN  [ ok |-> validate_gates(circuit), circuit |-> circuit ]

\* Circuit::add_gates: add_gate in order, returning at the first error
RECURSIVE add_gates(_, _)
add_gates(self, gates) ==
    IF gates = <<>>
    THEN [ ok |-> TRUE, circuit |-> self ]
    ELSE LET first == add_gate(self, Head(gates))
         IN  IF first.ok THEN add_gates(first.circuit, Tail(gates)) ELSE first

\* Circuit::clear
clear(self) == [ self EXCEPT !.gates = <<>> ]

\* Circuit::is_empty
is_empty(self) == self.gates = <<>>

\* CircuitBuilder::h, cnot, ...: add_gate with its result discarded
builder_gate(circuit, gate) == add_gate(circuit, gate).circuit

\* CircuitBuilder::build
build(circuit) == [ ok |-> TRUE, circuit |-> circuit ]

\* CircuitBuilder::build_validated
build_validated(circuit) ==
    IF is_empty(circuit)
    THEN [ ok |-> FALSE, error |-> "EmptyCircuit" ]
    ELSE [ ok |-> TRUE, circuit |-> circuit ]

\* ------------------------------------------------------------------------
\* niso_noise::noise_model::NoiseModel
\* ------------------------------------------------------------------------
\* error rates are rationals over ErrScale
ErrScale == 40 * LevelScale

\* Option<T>::None (Some(v) is <<v>>)
None == <<>>

\* an f64 time in microseconds: a finite whole number, or f64::INFINITY
Finite(us) == [ finite |-> TRUE, us |-> us ]

INFINITY == [ finite |-> FALSE, us |-> 0 ]

\* NoiseModel::ideal
NoiseModel_ideal ==
    [ t1_us |-> INFINITY, t2_us |-> INFINITY, gate_error_1q |-> 0,
      gate_error_2q |-> 0, readout_error |-> 0, crosstalk |-> None ]

\* NoiseModel::ibm_typical
ibm_typical ==
    [ t1_us |-> Finite(100), t2_us |-> Finite(60), gate_error_1q |-> 12,
      gate_error_2q |-> 400, readout_error |-> 400, crosstalk |-> <<40>> ]

\* NoiseModel::high_quality
high_quality ==
    [ t1_us |-> Finite(200), t2_us |-> Finite(150), gate_error_1q |-> 4,
      gate_error_2q |-> 200, readout_error |-> 200, crosstalk |-> <<20>> ]

\* NoiseModel::noisy_test(depol), depol over LevelScale
noisy_test(depol) ==
    [ t1_us |-> Finite(100), t2_us |-> Finite(60), gate_error_1q |-> 40 * depol,
      gate_error_2q |-> 40 * depol * 10, readout_error |-> 10 * depol,
      crosstalk |-> None ]

\* NoiseModel::from_depol(p_depol), p_depol over LevelScale, 0 <= p_depol <= 0.06
from_depol(p_depol) ==
    [ t1_us |-> Finite(100), t2_us |-> Finite(60), gate_error_1q |-> 40 * p_depol,
      gate_error_2q |-> 40 * p_depol * 10, readout_error |-> 10 * p_depol,
      crosstalk |-> None ]

\* NoiseModel::validate: the first constraint the model breaks, or "Ok"
NoiseModel_validate(self) ==
    IF self.t1_us.finite /\ self.t1_us.us <= 0 THEN "CalibrationError"
    ELSE IF self.t2_us.finite /\ self.t2_us.us <= 0 THEN "CalibrationError"
    ELSE IF self.t2_us.finite /\ self.t1_us.finite /\ self.t2_us.us > 2 * self.t1_us.us
    THEN "InvalidT2"
    ELSE IF self.gate_error_1q < 0 \/ self.gate_error_1q > ErrScale THEN "CalibrationError"
    ELSE IF self.gate_error_2q < 0 \/ self.gate_error_2q > ErrScale THEN "CalibrationError"
    ELSE IF self.readout_error < 0 \/ self.readout_error > ErrScale THEN "CalibrationError"
    ELSE IF self.crosstalk # None
            /\ (self.crosstalk[1] < 0 \/ self.crosstalk[1] > ErrScale)
    THEN "CalibrationError"
    ELSE "Ok"

\* NoiseModel::new: the model, and Ok or the error of validate
NoiseModel_new(t1_us, t2_us, gate_error_1q, gate_error_2q, readout_error) ==
    LET model == [ t1_us |-> t1_us, t2_us |-> t2_us, gate_error_1q |-> gate_error_1q,
                   gate_error_2q |-> gate_error_2q, readout_error |-> readout_error,
                   crosstalk |-> None ]
    IN  [ ok |-> NoiseModel_validate(model) = "Ok",
          error |-> NoiseModel_validate(model), model |-> model ]

\* NoiseModel::with_crosstalk
with_crosstalk(self, ct) == [ self EXCEPT !.crosstalk = <<ct>> ]

\* NoiseModel::with_t1
with_t1(self, t1_us) == [ self EXCEPT !.t1_us = t1_us ]

\* NoiseModel::with_t2
with_t2(self, t2_us) == [ self EXCEPT !.t2_us = t2_us ]

\* NoiseModel::with_gate_error_1q
with_gate_error_1q(self, error) == [ self EXCEPT !.gate_error_1q = error ]

\* NoiseModel::with_gate_error_2q
with_gate_error_2q(self, error) == [ self EXCEPT !.gate_error_2q = error ]

\* NoiseModel::with_readout_error
with_readout_error(self, error) == [ self EXCEPT !.readout_error = error ]

\* ------------------------------------------------------------------------
\* niso_noise::gate_times::GateTimes and niso_schedule::scheduler::Scheduler
\* (times are whole nanoseconds)
\* ------------------------------------------------------------------------
\* Gate::is_three_qubit
is_three_qubit(gate) == gate.name \in {"Ccx", "Cswap"}

\* Gate::is_measurement
is_measurement(gate) == gate.name \in {"Measure", "MeasureAll"}

\* Gate::is_barrier
is_barrier(gate) == gate.name = "Barrier"

\* Gate::name
gate_name(gate) ==
    CASE gate.name = "H" -> "h"
      [] gate.name = "X" -> "x"
      [] gate.name = "Y" -> "y"
      [] gate.name = "Z" -> "z"
      [] gate.name = "S" -> "s"
      [] gate.name = "Sdg" -> "sdg"
      [] gate.name = "Cnot" -> "cx"
      [] gate.name = "Cz" -> "cz"
      [] gate.name = "Swap" -> "swap"
      [] gate.name = "Ccx" -> "ccx"
      [] gate.name = "Cswap" -> "cswap"
      [] gate.name = "Measure" -> "measure"
      [] gate.name = "MeasureAll" -> "measure"
      [] gate.name = "Barrier" -> "barrier"

\* GateTimes::new
GateTimes_new(single_qubit_ns, two_qubit_ns, measurement_ns) ==
    [ single_qubit_ns |-> single_qubit_ns, two_qubit_ns |-> two_qubit_ns,
      measurement_ns |-> measurement_ns, gate_overrides |-> [ n \in {} |-> 0 ] ]

\* GateTimes::default_ibm
default_ibm == GateTimes_new(35, 300, 5000)

\* GateTimes::photonic
photonic == GateTimes_new(10, 100, 1000)

\* GateTimes::with_gate_time
with_gate_time(self, name, time_ns) ==
    [ self EXCEPT !.gate_overrides =
        [ n \in DOMAIN @ \cup {name} |-> IF n = name THEN time_ns ELSE @[n] ] ]

\* the overrides with_ibm_defaults inserts
IbmOverrides ==
    [ n \in { "rz", "z", "id" } |-> 0 ]
        @@ [ n \in { "h", "x", "y", "sx", "s", "sdg", "t", "tdg", "rx", "ry" } |-> 35 ]
        @@ [ n \in { "cx", "cz", "ecr" } |-> 300 ]
        @@ ("swap" :> 900) @@ ("reset" :> 1000) @@ ("measure" :> 5000)

\* GateTimes::with_ibm_defaults
with_ibm_defaults(self) ==
    [ self EXCEPT !.gate_overrides =
        [ n \in DOMAIN @ \cup DOMAIN IbmOverrides |->
            IF n \in DOMAIN IbmOverrides THEN IbmOverrides[n] ELSE @[n] ] ]

\* GateTimes::gate_duration
gate_duration(self, gate) ==
    IF gate_name(gate) \in DOMAIN self.gate_overrides
    THEN self.gate_overrides[gate_name(gate)]
    ELSE IF is_measurement(gate) THEN self.measurement_ns
    ELSE IF is_two_qubit(gate) THEN self.two_qubit_ns
    ELSE IF is_three_qubit(gate) THEN self.two_qubit_ns * 6
    ELSE IF is_single_qubit(gate) THEN self.single_qubit_ns
    ELSE IF is_barrier(gate) THEN 0
    ELSE self.single_qubit_ns

\* iter().cloned().fold(0.0, f64::max) over a set of times
FoldMax(times) ==
    LET all == times \cup {0}
    IN  CHOOSE m \in all : \A t \in all : t <= m

\* schedule_gate that waits for the first qubit of the gate only
schedule_gate_first_qubit(gate, qubit_available, gate_times) ==
    LET start_time ==
            IF qubits(gate) = <<>>
            THEN FoldMax({ qubit_available[q] : q \in DOMAIN qubit_available })
            ELSE FoldMax({ qubit_available[qubits(gate)[i]] :
                             i \in { j \in {1} : qubits(gate)[j] \in DOMAIN qubit_available } })
    IN  [ start_time |-> start_time,
          end_time |-> start_time + gate_duration(gate_times, gate) ]

\* Scheduler::schedule_gate: qubit_available maps the qubits 0..n-1 to times
schedule_gate(gate, qubit_available, gate_times) ==
    LET start_time ==
            IF qubits(gate) = <<>>
            THEN FoldMax({ qubit_available[q] : q \in DOMAIN qubit_available })
            ELSE FoldMax({ qubit_available[qubits(gate)[i]] :
                             i \in { j \in DOMAIN qubits(gate) :
                                       qubits(gate)[j] \in DOMAIN qubit_available } })
    IN  [ start_time |-> start_time,
          end_time |-> start_time + gate_duration(gate_times, gate) ]

\* Scheduler::update_availability
update_availability(gate, end_time, qubit_available, num_qubits) ==
    IF qubits(gate) = <<>>
    THEN [ q \in DOMAIN qubit_available |-> end_time ]
    ELSE [ q \in DOMAIN qubit_available |->
             IF q < num_qubits /\ (\E i \in DOMAIN qubits(gate) : qubits(gate)[i] = q)
             THEN end_time
             ELSE qubit_available[q] ]

\* CircuitSchedule::empty
CircuitSchedule_empty(num_qubits) ==
    [ gates |-> <<>>, total_duration_ns |-> 0, num_qubits |-> num_qubits,
      qubit_end_times |-> [ q \in 0..(num_qubits - 1) |-> 0 ] ]

\* CircuitSchedule::new
CircuitSchedule_new(gates, total_duration_ns, num_qubits, qubit_end_times) ==
    [ gates |-> gates, total_duration_ns |-> total_duration_ns,
      num_qubits |-> num_qubits, qubit_end_times |-> qubit_end_times ]

\* ScheduledGate::new
ScheduledGate_new(gate_idx, gate, start_time_ns, end_time_ns) ==
    [ gate_idx |-> gate_idx, gate |-> gate, start_time_ns |-> start_time_ns,
      end_time_ns |-> end_time_ns ]

\* ScheduledGate::duration
duration(self) == self.end_time_ns - self.start_time_ns

\* ScheduledGate::overlaps
overlaps(self, start, end) == self.start_time_ns < end /\ self.end_time_ns > start

\* the loop of idle_times for one qubit: the durations of the gates whose
\* gate.qubits() holds q, over the first k scheduled gates
RECURSIVE active_times(_, _, _)
active_times(self, q, k) ==
    IF k = 0 THEN 0
    ELSE active_times(self, q, k - 1)
         + (IF q < self.num_qubits
               /\ \E i \in DOMAIN qubits(self.gates[k].gate) :
                      qubits(self.gates[k].gate)[i] = q
            THEN duration(self.gates[k])
            ELSE 0)

\* CircuitSchedule::idle_times
idle_times(self) ==
    [ q \in DOMAIN self.qubit_end_times |->
        Max2(self.qubit_end_times[q] - active_times(self, q, Len(self.gates)), 0) ]

\* ------------------------------------------------------------------------
\* niso_tqqc::parity::Parity and niso_backend::execution::ExecutionResult
\* (an f64 is NaN, an infinity or an exact rational; a bitstring is the
\* sequence of its binary digits)
\* ------------------------------------------------------------------------
NaN == [ kind |-> "nan", neg |-> FALSE, val |-> <<0, 1>> ]

Inf(neg) == [ kind |-> "inf", neg |-> neg, val |-> <<0, 1>> ]

Num(r) == [ kind |-> "num", neg |-> FALSE, val |-> r ]

\* n as f64 / d as f64
F64Div(n, d) ==
    IF d # 0 THEN Num(<<n, d>>)
    ELSE IF n = 0 THEN NaN
    ELSE Inf(n < 0)

\* x - y on f64
F64Sub(x, y) ==
    IF x.kind = "nan" \/ y.kind = "nan" THEN NaN
    ELSE IF x.kind = "num" /\ y.kind = "num"
         THEN Num(<<x.val[1] * y.val[2] - y.val[1] * x.val[2], x.val[2] * y.val[2]>>)
    ELSE IF x.kind = "num" THEN Inf(~y.neg)
    ELSE IF y.kind = "num" THEN x
    ELSE IF x.neg = y.neg THEN NaN
    ELSE x

\* x + y on f64
F64Add(x, y) ==
    F64Sub(x, IF y.kind = "num" THEN Num(<<-y.val[1], y.val[2]>>)
              ELSE IF y.kind = "inf" THEN Inf(~y.neg)
              ELSE NaN)

\* Parity::popcount
popcount(bitstring) == Cardinality({ i \in DOMAIN bitstring : bitstring[i] = 1 })

\* Parity::is_even
is_even(bitstring) == popcount(bitstring) % 2 = 0

\* the sum of counts over the given keys
RECURSIVE SumCounts(_, _)
SumCounts(counts, keys) ==
    IF keys = {} THEN 0
    ELSE LET b == CHOOSE k \in keys : TRUE
         IN  counts[b] + SumCounts(counts, keys \ {b})

\* the counts of the even keys and of the odd keys
EvenCount(counts) == SumCounts(counts, { b \in DOMAIN counts : is_even(b) })

OddCount(counts) == SumCounts(counts, { b \in DOMAIN counts : ~is_even(b) })

\* Parity::p_even
Parity_p_even(counts) ==
    LET total == SumCounts(counts, DOMAIN counts)
    IN  IF total = 0 THEN Num(<<1, 2>>)
        ELSE F64Div(EvenCount(counts), total)

\* Parity::p_odd
Parity_p_odd(counts) == F64Sub(Num(<<1, 1>>), Parity_p_even(counts))

\* Parity::expectation
Parity_expectation(counts) ==
    LET total == SumCounts(counts, DOMAIN counts)
    IN  IF total = 0 THEN Num(<<0, 1>>)
        ELSE F64Div(EvenCount(counts) - OddCount(counts), total)

\* ExecutionResult::new
ExecutionResult_new(counts, shots) == [ counts |-> counts, shots |-> shots ]

\* ExecutionResult::parity_expectation
parity_expectation(self) ==
    F64Div(EvenCount(self.counts) - OddCount(self.counts), self.shots)

\* ExecutionResult::p_even
p_even(self) == F64Div(EvenCount(self.counts), self.shots)

\* ExecutionResult::p_odd
p_odd(self) == F64Sub(Num(<<1, 1>>), p_even(self))

\* ------------------------------------------------------------------------
\* niso_engine::config::NisoConfig and niso_engine::pipeline::Pipeline
\* (noise over LevelScale, times in microseconds, step_amp over DeltaScale,
\* error rates over ErrScale)
\* ------------------------------------------------------------------------
\* NisoConfig::default_7q
NisoConfig_default_7q ==
    [ qubits |-> 7, points |-> 20, shots |-> 8192, noise |-> 20,
      step_amp |-> 120000, inner_max |-> 10, dynamic_inner |-> TRUE,
      use_statistical_test |-> FALSE, sig_mode |-> "Fixed", sig_level |-> 950,
      delta_mode |-> "Track", t1_us |-> 100, t2_us |-> 60, gate_error_1q |-> 12,
      gate_error_2q |-> 400, readout_error |-> 400, seed |-> None ]

\* NisoConfig::default_5q
NisoConfig_default_5q == [ NisoConfig_default_7q EXCEPT !.qubits = 5 ]

\* NisoConfig::validate: the first rule the configuration breaks, or "Ok"
NisoConfig_validate(self) ==
    IF self.qubits < 2 THEN "qubits must be >= 2"
    ELSE IF self.points = 0 THEN "points must be > 0"
    ELSE IF self.shots = 0 THEN "shots must be > 0"
    ELSE IF self.noise < 0 \/ self.noise > 100 THEN "noise must be in [0, 0.1]"
    ELSE IF self.t2_us > 2 * self.t1_us THEN "T2 must be <= 2*T1"
    ELSE "Ok"

\* PipelineState::new
PipelineState_new(config) ==
    [ stage |-> "Initial", config |-> config, calibration |-> None,
      circuit |-> None, schedule |-> None, noise_vectors |-> None,
      tqqc_result |-> None ]

\* Pipeline::calibrate; the calibration and the noise vectors are named by
\* what they were made from
Pipeline_calibrate(self) ==
    [ ok |-> TRUE,
      state |-> [ self EXCEPT
                    !.calibration = <<[ backend_name |-> "niso_simulator",
                                        qubits |-> self.config.qubits,
                                        t1_us |-> self.config.t1_us,
                                        t2_us |-> self.config.t2_us ]>>,
                    !.noise_vectors = <<[ qubits |-> self.config.qubits ]>>,
                    !.stage = "Calibrated" ] ]

\* Pipeline::build_circuit; the circuit is named by the arguments of
\* Parity::build_circuit
Pipeline_build_circuit(self, theta, delta) ==
    [ ok |-> TRUE,
      state |-> [ self EXCEPT
                    !.circuit = <<[ qubits |-> self.config.qubits,
                                    theta |-> theta, delta |-> delta ]>>,
                    !.stage = "CircuitBuilt" ] ]

\* Pipeline::schedule; the schedule is named by the circuit it was computed for
Pipeline_schedule(self) ==
    LET built == IF self.circuit = None
                 THEN Pipeline_build_circuit(self, 0, 0).state
                 ELSE self
    IN  [ ok |-> TRUE,
          state |-> [ built EXCEPT
                        !.schedule = <<[ circuit |-> built.circuit[1] ]>>,
                        !.stage = "Scheduled" ] ]

\* Pipeline::optimize; the TqqcResult is named by the configuration of the run
Pipeline_optimize(self) ==
    IF NisoConfig_validate(self.config) # "Ok"
    THEN [ ok |-> FALSE, state |-> self ]
    ELSE [ ok |-> TRUE,
           state |-> [ self EXCEPT
                         !.tqqc_result = <<[ points |-> self.config.points ]>>,
                         !.stage = "Optimized" ] ]

\* Pipeline::run: the four stages in sequence, an error ending the sequence
Pipeline_run(self) ==
    Pipeline_optimize(
        Pipeline_schedule(
            Pipeline_build_circuit(Pipeline_calibrate(self).state, 0, 0).state).state)

\* Pipeline::reset
Pipeline_reset(self) == PipelineState_new(self.config)

\* Pipeline::reconfigure
Pipeline_reconfigure(self, config) == PipelineState_new(config)

\* ------------------------------------------------------------------------
\* State
\* ------------------------------------------------------------------------
VARIABLES
    \* TqqcEngine fields
    config, convergence, dynamic_inner, stat_test, rng,
    \* TqqcEngine::optimize: position and locals
    pc, iteration, delta, parity_current, parity_baseline, last_improve,
    total_inner, early_stopped, ties_count, significant_moves, history,
    \* locals of the current outer iteration (inner_count, j, best_*, record_*)
    it,
    \* the TqqcResult returned by optimize
    result,
    \* observation only: per outer iteration, the running (delta, parity) it
    \* started from and what each inner step measured and selected
    trace,
    \* observation only: number of Backend::execute calls made by the engine
    executes,
    \* observation only: every measure_parity call of optimize, in order, with
    \* the delta it was given and the parity it returned
    parity_calls,
    \* observation only: improvements pushed into the Convergence Controller
    \* since its construction or its last reset
    pushed,
    \* the last call of a pure function and what it returned
    call,
    \* observation only: operations applied to a component driven on its own
    ops,
    \* a SimulatorBackend (num_qubits, noise_model, seed)
    backend,
    \* observation only: every Backend::execute call on the simulator, with
    \* the backend it ran on, its arguments and what it returned
    runs,
    \* the execute call in progress: its arguments, the shots still to run,
    \* the counts so far and the generator; observation only: the integer
    \* results measure_state formatted (in exec and in each record of runs)
    exec,
    \* a Circuit (num_qubits, gates), used directly or owned by a builder
    circ,
    \* the last call on the circuit: its name, whether it returned Ok and the
    \* circuit before it
    circ_last,
    \* the CircuitBuilder owning the circuit, if any; observation only: the
    \* number of gates it was given with a qubit index out of range
    builder,
    \* a NoiseModel value
    nmodel,
    \* the last NoiseModel constructor or builder call and whether it returned
    \* a model
    nm_last,
    \* Scheduler::compute_asap: its arguments, its locals (qubit_available,
    \* scheduled_gates, the index of the next gate) and the CircuitSchedule it
    \* returns; observation only: qubit_available before and after each gate
    sched,
    \* a Pipeline: its PipelineState; observation only: the last method called
    \* on it and whether it returned Ok
    pipeline,
    \* a NisoOptimizer: its config and calibration; observation only: what each
    \* optimize call on it returned and the parities its engine measured
    optimizer

engineVars == <<config, convergence, dynamic_inner, stat_test, rng, pc, iteration,
                delta, parity_current, parity_baseline, last_improve, total_inner,
                early_stopped, ties_count, significant_moves, history, it, result,
                trace, executes, parity_calls>>

simVars == <<backend, runs, exec>>

circVars == <<circ, circ_last, builder>>

nmVars == <<nmodel, nm_last>>

schedVars == <<sched>>

pipeVars == <<pipeline, optimizer>>

libVars == <<circVars, nmVars, schedVars, pipeVars>>

vars == <<engineVars, pushed, call, ops, simVars, libVars>>

\* ------------------------------------------------------------------------
\* Bounds and input sets
\* ------------------------------------------------------------------------
\* largest number of outer iterations (config.points) explored
MaxPoints == 4

\* config.points of the runs that vary the feature flags
FlagPoints == 2

\* largest config.inner_max explored
MaxInnerMax == 2

\* parities a measurement may return, in ParityScale units
ParityVals == {0, 3, 5}

\* Option<u64>: None is the empty sequence, Some(v) is <<v>>
NoSeed == <<>>

Some(v) == <<v>>

\* RNG states StdRng::from_entropy may start from
EntropyStates == {1, 12}

NoCall == [ op |-> "none" ]

NoIt ==
    [ inner_count |-> 0, j |-> 0, best_delta |-> 0, best_parity |-> 0,
      record_parity_plus |-> 0, record_parity_minus |-> 0,
      record_direction |-> "None", record_significant |-> FALSE, steps |-> <<>> ]

NoResult == [ done |-> FALSE ]

\* TqqcConfig::default_5q with the given flags
BaseConfig ==
    [ qubits |-> 5, points |-> MaxPoints, shots |-> 8192, noise |-> 20,
      step_amp |-> 120000, inner_max |-> MaxInnerMax, dynamic_inner |-> TRUE,
      use_statistical_test |-> FALSE, sig_mode |-> "Fixed", sig_level |-> 950,
      delta_mode |-> "Track", delta_init |-> 0, seed |-> Some(42),
      basis_len |-> 5 ]

\* the three feature flags, FlagPoints iterations deep: every combination
\* with a fixed inner count, and with the dynamic inner loop the statistical
\* test in Track mode and plain selection in Reset mode, so that every two
\* flag values meet in some configuration
FlagConfigs ==
    { [ BaseConfig EXCEPT !.dynamic_inner = FALSE, !.use_statistical_test = s,
                          !.delta_mode = m, !.points = FlagPoints ] :
        s \in BOOLEAN, m \in {"Track", "Reset"} }
    \cup { [ BaseConfig EXCEPT !.use_statistical_test = TRUE, !.points = FlagPoints ],
           [ BaseConfig EXCEPT !.delta_mode = "Reset", !.points = FlagPoints ] }

\* long runs, with and without the dynamic inner loop, one inner step and
\* one shot each
DeepConfigs ==
    { [ BaseConfig EXCEPT !.dynamic_inner = d, !.inner_max = 1, !.shots = 1 ] :
        d \in BOOLEAN }

\* other qubit counts, noise levels, seeds and point counts, one iteration deep
WideConfigs ==
    { [ BaseConfig EXCEPT !.qubits = q, !.basis_len = q, !.noise = n, !.points = 1,
                          !.seed = sd ] :
        q \in {2, 5, 7, 9}, n \in {0, 20, 30, 60}, sd \in {NoSeed, Some(42)} }

\* TqqcConfig::validate: the first rule the configuration breaks, or "Ok"
validate(cfg) ==
    IF cfg.qubits < 2 THEN "InvalidQubits"
    ELSE IF cfg.points = 0 THEN "InvalidPoints"
    ELSE IF cfg.shots = 0 THEN "InvalidShots"
    ELSE IF cfg.noise < 0 \/ cfg.noise > 60 THEN "InvalidNoise"
    ELSE IF cfg.step_amp <= 0 THEN "InvalidStepAmp"
    ELSE IF cfg.inner_max = 0 THEN "InvalidInnerMax"
    ELSE IF cfg.sig_level < 800 \/ cfg.sig_level > 990 THEN "InvalidSigLevel"
    ELSE IF cfg.basis_len # cfg.qubits THEN "BasisLengthMismatch"
    ELSE "Ok"

\* one configuration per validation rule, built with the unchecked with_* setters
InvalidConfigs ==
    { [ BaseConfig EXCEPT !.points = 1, !.qubits = 1, !.basis_len = 1 ],
      [ BaseConfig EXCEPT !.points = 0 ],
      [ BaseConfig EXCEPT !.points = 1, !.shots = 0 ],
      [ BaseConfig EXCEPT !.points = 1, !.noise = 70 ],
      [ BaseConfig EXCEPT !.points = 1, !.step_amp = 0 ],
      [ BaseConfig EXCEPT !.points = 1, !.inner_max = 0 ],
      [ BaseConfig EXCEPT !.points = 1, !.sig_level = 995 ],
      [ BaseConfig EXCEPT !.points = 1, !.basis_len = 3 ] }

\* runs that start away from delta = 0 (with_delta), in either
\* accumulation mode, one iteration deep
OffsetConfigs ==
    { [ BaseConfig EXCEPT !.points = 1, !.delta_init = 50000, !.delta_mode = m ] :
        m \in {"Track", "Reset"} }

Configs ==
    FlagConfigs \cup DeepConfigs \cup WideConfigs \cup InvalidConfigs \cup OffsetConfigs

\* the extreme parities, every shot even or every shot odd, and one parity
\* between them, in ParityScale units
ExtremeParityVals == {-100, 5, 100}

\* the parities of one shot: its outcome is even or odd
SingleShotParityVals == {-100, 100}

\* parities measure_parity may return: Parity::expectation is 0 on empty
\* counts and plus or minus one on a single shot; the extreme parities are
\* explored on a noiseless configuration
ParityInputs(cfg) ==
    IF cfg.shots = 0 THEN {0}
    ELSE IF cfg.shots = 1 THEN SingleShotParityVals
    ELSE IF cfg.noise = 0 THEN ExtremeParityVals
    ELSE ParityVals

\* config.points of the runs that meet a zero standard error
ZeroPoints == 2

\* statistically tested runs on a noiseless configuration, in either mode,
\* and one with shots = 0
ZeroConfigs ==
    { [ BaseConfig EXCEPT !.use_statistical_test = TRUE, !.noise = 0,
                          !.points = ZeroPoints, !.inner_max = 1, !.sig_mode = m ] :
        m \in {"Fixed", "Adaptive"} }
        \cup { [ BaseConfig EXCEPT !.use_statistical_test = TRUE, !.shots = 0,
                                   !.points = ZeroPoints, !.inner_max = 1 ] }

\* ------------------------------------------------------------------------
\* niso_tqqc::engine::TqqcEngine
\* ------------------------------------------------------------------------
\* no simulator backend has been built
NoBackend == [ num_qubits |-> 0 ]

SimIdle ==
    /\ backend = NoBackend
    /\ runs = <<>>
    /\ exec = [ running |-> FALSE ]

NoOp == [ op |-> "none" ]

NoBuilder == [ stage |-> "none" ]

CircIdle ==
    /\ circ = Circuit_new(0)
    /\ circ_last = NoOp
    /\ builder = NoBuilder

NmIdle ==
    /\ nmodel = NoiseModel_ideal
    /\ nm_last = NoOp

NoSchedule == [ stage |-> "idle" ]

SchedIdle == sched = NoSchedule

NoPipeline == [ last |-> "none" ]

\* no optimizer has been built
NoOptimizer == [ results |-> <<>> ]

PipeIdle == pipeline = NoPipeline /\ optimizer = NoOptimizer

LibIdle == CircIdle /\ NmIdle /\ SchedIdle /\ PipeIdle

\* StdRng::seed_from_u64(seed) or StdRng::from_entropy()
MakeRng(seed, entropy) == IF seed # NoSeed THEN seed_from_u64(seed[1]) ELSE entropy

\* TqqcEngine::new on one of the configurations cfgs
EngineInit(cfgs) ==
    /\ config \in cfgs
    /\ convergence = from_noise(config.qubits, config.noise)
    /\ dynamic_inner = DynamicInner_new(config.inner_max)
    /\ stat_test = StatisticalTest_new(config.sig_mode, config.sig_level)
    /\ \E e \in EntropyStates : rng = MakeRng(config.seed, e)
    /\ pc = "start"
    /\ iteration = 0
    /\ delta = 0
    /\ parity_current = 0
    /\ parity_baseline = 0
    /\ last_improve = 0
    /\ total_inner = 0
    /\ early_stopped = FALSE
    /\ ties_count = 0
    /\ significant_moves = 0
    /\ history = <<>>
    /\ it = NoIt
    /\ result = NoResult
    /\ trace = <<>>
    /\ executes = 0
    /\ parity_calls = <<>>
    /\ pushed = <<>>
    /\ call = NoCall
    /\ ops = 0
    /\ SimIdle
    /\ LibIdle

Init == EngineInit(Configs)

\* select_direction that moves plus on every significant result
select_direction_plus_only(d, step, parity_plus, parity_minus, p_current, test_result, r) ==
    IF test_result.is_tie
    THEN IF 2 * GenF64(r) > RngMod
         THEN [ delta |-> d + step, parity |-> parity_plus, direction |-> "Plus",
                is_significant |-> FALSE, rng |-> NextRng(r) ]
         ELSE [ delta |-> d - step, parity |-> parity_minus, direction |-> "Minus",
                is_significant |-> FALSE, rng |-> NextRng(r) ]
    ELSE IF test_result.is_significant
    THEN [ delta |-> d + step, parity |-> parity_plus, direction |-> "Plus",
           is_significant |-> TRUE, rng |-> r ]
    ELSE [ delta |-> d, parity |-> p_current, direction |-> "Stay",
           is_significant |-> FALSE, rng |-> r ]

\* select_direction that moves to the higher side on a non-significant result
select_direction_no_stay(d, step, parity_plus, parity_minus, p_current, test_result, r) ==
    IF test_result.is_tie
    THEN IF 2 * GenF64(r) > RngMod
         THEN [ delta |-> d + step, parity |-> parity_plus, direction |-> "Plus",
                is_significant |-> FALSE, rng |-> NextRng(r) ]
         ELSE [ delta |-> d - step, parity |-> parity_minus, direction |-> "Minus",
                is_significant |-> FALSE, rng |-> NextRng(r) ]
    ELSE IF test_result.is_significant
    THEN IF test_result.direction = "Plus"
         THEN [ delta |-> d + step, parity |-> parity_plus, direction |-> "Plus",
                is_significant |-> TRUE, rng |-> r ]
         ELSE [ delta |-> d - step, parity |-> parity_minus, direction |-> "Minus",
                is_significant |-> TRUE, rng |-> r ]
    ELSE IF parity_plus > parity_minus
    THEN [ delta |-> d + step, parity |-> parity_plus, direction |-> "Plus",
           is_significant |-> FALSE, rng |-> r ]
    ELSE [ delta |-> d - step, parity |-> parity_minus, direction |-> "Minus",
           is_significant |-> FALSE, rng |-> r ]

\* select_direction: the candidate (delta, parity), the direction, the
\* significance flag and the generator after the call
select_direction(d, step, parity_plus, parity_minus, p_current, test_result, r) ==
    IF test_result.is_tie
    THEN IF 2 * GenF64(r) > RngMod
         THEN [ delta |-> d + step, parity |-> parity_plus, direction |-> "Plus",
                is_significant |-> FALSE, rng |-> NextRng(r) ]
         ELSE [ delta |-> d - step, parity |-> parity_minus, direction |-> "Minus",
                is_significant |-> FALSE, rng |-> NextRng(r) ]
    ELSE IF test_result.is_significant
    THEN IF test_result.direction = "Plus"
         THEN [ delta |-> d + step, parity |-> parity_plus, direction |-> "Plus",
                is_significant |-> TRUE, rng |-> r ]
         ELSE IF test_result.direction = "Minus"
         THEN [ delta |-> d - step, parity |-> parity_minus, direction |-> "Minus",
                is_significant |-> TRUE, rng |-> r ]
         ELSE [ delta |-> d, parity |-> p_current, direction |-> "Stay",
                is_significant |-> TRUE, rng |-> r ]
    ELSE [ delta |-> d, parity |-> p_current, direction |-> "Stay",
           is_significant |-> FALSE, rng |-> r ]

\* the branch without a statistical test, with the comparison reversed
select_better_reversed(d, step, parity_plus, parity_minus, r) ==
    IF parity_plus < parity_minus
    THEN [ delta |-> d + step, parity |-> parity_plus, direction |-> "Plus",
           is_significant |-> TRUE, rng |-> r ]
    ELSE [ delta |-> d - step, parity |-> parity_minus, direction |-> "Minus",
           is_significant |-> TRUE, rng |-> r ]

\* the branch of optimize without a statistical test: always select the better
select_better(d, step, parity_plus, parity_minus, r) ==
    IF parity_plus > parity_minus
    THEN [ delta |-> d + step, parity |-> parity_plus, direction |-> "Plus",
           is_significant |-> TRUE, rng |-> r ]
    ELSE [ delta |-> d - step, parity |-> parity_minus, direction |-> "Minus",
           is_significant |-> TRUE, rng |-> r ]

NoTest ==
    [ is_significant |-> FALSE, z_sq |-> <<0, 1>>, z_critical |-> 0,
      direction |-> "None", is_tie |-> FALSE ]

\* the delta of a baseline measured at the initial offset of the run
baseline_delta_at_init(cfg) == cfg.delta_init

\* the delta of the baseline measurement: measure_parity(theta, 0.0)
baseline_delta(cfg) == 0

\* optimize, lines 170-183: the baseline measurement at delta = 0
Baseline ==
    /\ pc = "start"
    /\ \E p \in ParityInputs(config) :
        /\ parity_baseline' = p
        /\ parity_current' = p
        /\ parity_calls' = Append(parity_calls, [ delta |-> baseline_delta(config), parity |-> p,
                                                  site |-> "baseline" ])
    /\ delta' = config.delta_init
    /\ executes' = executes + 1
    /\ pc' = "outer"
    /\ UNCHANGED simVars
    /\ UNCHANGED libVars
    /\ UNCHANGED <<config, convergence, dynamic_inner, stat_test, rng, iteration,
                   last_improve, total_inner, early_stopped, ties_count,
                   significant_moves, history, it, result, trace, pushed, call, ops>>

\* optimize, lines 186-200: the head of one outer iteration
BeginOuter ==
    /\ pc = "outer"
    /\ iteration < config.points
    /\ LET inner_count ==
              IF config.dynamic_inner
              THEN compute_count(dynamic_inner, ParityRat(last_improve),
                                 threshold(convergence))
              ELSE 1
       IN  it' = [ inner_count |-> inner_count, j |-> 0,
                   best_delta |-> delta, best_parity |-> parity_current,
                   record_parity_plus |-> 0, record_parity_minus |-> 0,
                   record_direction |-> "None", record_significant |-> FALSE,
                   steps |-> <<>> ]
    /\ pc' = "inner"
    /\ UNCHANGED simVars
    /\ UNCHANGED libVars
    /\ UNCHANGED <<config, convergence, dynamic_inner, stat_test, rng, iteration,
                   delta, parity_current, parity_baseline, last_improve, total_inner,
                   early_stopped, ties_count, significant_moves, history, result,
                   trace, executes, parity_calls, pushed, call, ops>>

\* the best (delta, parity) replaced by every candidate
UpdateBest_always(best, cand) == [ delta |-> cand.delta, parity |-> cand.parity ]

\* the best (delta, parity) after a candidate: replaced on a strictly higher parity
UpdateBest(best, cand) ==
    IF cand.parity > best.parity
    THEN [ delta |-> cand.delta, parity |-> cand.parity ]
    ELSE best

\* optimize, lines 203-256: one pass of the inner loop
InnerStep ==
    /\ pc = "inner"
    /\ it.j < it.inner_count
    /\ \E parity_plus \in ParityInputs(config), parity_minus \in ParityInputs(config) :
        LET step_j == compute_step(it.j, config.step_amp)
            test_result ==
                IF config.use_statistical_test
                THEN test(stat_test, parity_plus, parity_minus, config.shots, config.noise)
                ELSE NoTest
            cand ==
                IF config.use_statistical_test
                THEN select_direction(delta, step_j, parity_plus, parity_minus,
                                      parity_current, test_result, rng)
                ELSE select_better(delta, step_j, parity_plus, parity_minus, rng)
            best == UpdateBest([ delta |-> it.best_delta, parity |-> it.best_parity ], cand)
            first == it.j = 0
        IN  /\ significant_moves' =
                   IF test_result.is_significant THEN significant_moves + 1
                   ELSE significant_moves
            /\ rng' = cand.rng
            /\ parity_calls' =
                   parity_calls
                       \o << [ delta |-> delta + step_j, parity |-> parity_plus,
                               site |-> "plus" ],
                             [ delta |-> delta - step_j, parity |-> parity_minus,
                               site |-> "minus" ] >>
            /\ it' = [ it EXCEPT
                   !.j = it.j + 1,
                   !.best_delta = best.delta,
                   !.best_parity = best.parity,
                   !.record_parity_plus = IF first THEN parity_plus ELSE @,
                   !.record_parity_minus = IF first THEN parity_minus ELSE @,
                   !.record_direction = IF first THEN cand.direction ELSE @,
                   !.record_significant = IF test_result.is_significant THEN TRUE ELSE @,
                   !.steps = Append(@, [ step |-> step_j,
                                         at_plus |-> delta + step_j,
                                         at_minus |-> delta - step_j,
                                         parity_plus |-> parity_plus,
                                         parity_minus |-> parity_minus,
                                         tested |-> config.use_statistical_test,
                                         is_tie |-> test_result.is_tie,
                                         is_significant |-> test_result.is_significant,
                                         z_sq |-> test_result.z_sq,
                                         test_direction |-> test_result.direction,
                                         cand_delta |-> cand.delta,
                                         cand_parity |-> cand.parity ]) ]
    /\ executes' = executes + 2
    /\ UNCHANGED simVars
    /\ UNCHANGED libVars
    /\ UNCHANGED <<config, convergence, dynamic_inner, stat_test, pc, iteration, delta,
                   parity_current, parity_baseline, last_improve, total_inner,
                   early_stopped, ties_count, history, result, trace, pushed, call, ops>>

\* the running delta with the Reset mode handled like Track
NextDelta_track_only(mode, best_delta, d) == best_delta

\* the running delta after an outer iteration, by accumulation mode
NextDelta(mode, best_delta, d) ==
    IF mode = "Track" THEN best_delta ELSE best_delta - d

\* the early-stop decision without the dynamic_inner gate
ShouldStop_ungated(cfg, conv) == check(conv)

\* the early-stop decision taken after the push
ShouldStop(cfg, conv) == cfg.dynamic_inner /\ check(conv)

\* optimize, lines 258-294: apply the best of the inner loop, record the
\* iteration, push the improvement and check convergence
EndOuter ==
    /\ pc = "inner"
    /\ it.j >= it.inner_count
    /\ LET improvement == it.best_parity - parity_current
           new_delta == NextDelta(config.delta_mode, it.best_delta, delta)
           conv == push(convergence, improvement)
           stop == ShouldStop(config, conv)
       IN  /\ delta' = new_delta
           /\ parity_current' = it.best_parity
           /\ last_improve' = improvement
           /\ total_inner' = total_inner + it.inner_count
           /\ ties_count' =
                  IF it.record_parity_plus = it.record_parity_minus
                  THEN ties_count + 1 ELSE ties_count
           /\ history' = Append(history,
                  [ iteration |-> iteration, delta |-> new_delta,
                    parity_plus |-> it.record_parity_plus,
                    parity_minus |-> it.record_parity_minus,
                    parity_selected |-> it.best_parity,
                    improvement |-> improvement,
                    inner_count |-> it.inner_count,
                    direction |-> it.record_direction,
                    is_significant |-> it.record_significant ])
           /\ trace' = Append(trace,
                  [ delta_before |-> delta, parity_before |-> parity_current,
                    steps |-> it.steps,
                    window_ok |-> window_condition(conv),
                    cumulative_ok |-> cumulative_condition(conv),
                    stopped |-> stop ])
           /\ convergence' = conv
           /\ pushed' = Append(pushed, improvement)
           /\ early_stopped' = IF stop THEN TRUE ELSE early_stopped
           /\ iteration' = IF stop THEN iteration ELSE iteration + 1
           /\ pc' = IF stop THEN "break" ELSE "outer"
    /\ it' = NoIt
    /\ UNCHANGED simVars
    /\ UNCHANGED libVars
    /\ UNCHANGED <<config, dynamic_inner, stat_test, rng, parity_baseline,
                   significant_moves, result, executes, parity_calls, call, ops>>

\* optimize, lines 297-308: the loop has ended, by exhaustion or by break
Finish ==
    /\ \/ pc = "break"
       \/ pc = "outer" /\ iteration >= config.points
    /\ result' = [ done |-> TRUE,
                   delta_opt |-> delta,
                   parity_baseline |-> parity_baseline,
                   parity_final |-> parity_current,
                   improvement |-> parity_current - parity_baseline,
                   iterations |-> Len(history),
                   early_stopped |-> early_stopped,
                   ties_count |-> ties_count,
                   significant_moves |-> significant_moves,
                   total_inner_iterations |-> total_inner,
                   history |-> history ]
    /\ pc' = "done"
    /\ UNCHANGED simVars
    /\ UNCHANGED libVars
    /\ UNCHANGED <<config, convergence, dynamic_inner, stat_test, rng, iteration,
                   delta, parity_current, parity_baseline, last_improve, total_inner,
                   early_stopped, ties_count, significant_moves, history, it, trace,
                   executes, parity_calls, pushed, call, ops>>

Next == Baseline \/ BeginOuter \/ InnerStep \/ EndOuter \/ Finish

Spec == Init /\ [][Next]_vars

\* the engine on the configurations that meet a zero standard error; optimize
\* runs to its return once called
ZeroInit == EngineInit(ZeroConfigs)

ZeroSpec == ZeroInit /\ [][Next]_vars /\ WF_vars(Next)

\* ------------------------------------------------------------------------
\* The Convergence Controller driven on its own through its public methods
\* (specification ConvSpec)
\* ------------------------------------------------------------------------
\* largest number of push / reset calls explored
MaxOps == 5

\* improvements pushed, in ParityScale units
PushVals == {-4, -1, 0, 1, 2, 4}

\* the engine is not running
EngineIdle ==
    /\ config = BaseConfig
    /\ dynamic_inner = DynamicInner_new(BaseConfig.inner_max)
    /\ stat_test = StatisticalTest_new(BaseConfig.sig_mode, BaseConfig.sig_level)
    /\ rng = 0
    /\ pc = "idle"
    /\ iteration = 0
    /\ delta = 0
    /\ parity_current = 0
    /\ parity_baseline = 0
    /\ last_improve = 0
    /\ total_inner = 0
    /\ early_stopped = FALSE
    /\ ties_count = 0
    /\ significant_moves = 0
    /\ history = <<>>
    /\ it = NoIt
    /\ result = NoResult
    /\ trace = <<>>
    /\ executes = 0
    /\ parity_calls = <<>>

\* Convergence::new(qubits, THRESHOLD_5Q)
ConvInit ==
    /\ EngineIdle
    /\ \E q \in {5, 7} : convergence = Convergence_new(q, THRESHOLD_5Q)
    /\ pushed = <<>>
    /\ call = NoCall
    /\ ops = 0
    /\ SimIdle
    /\ LibIdle

ConvPush ==
    /\ ops < MaxOps
    /\ \E improvement \in PushVals :
        /\ convergence' = push(convergence, improvement)
        /\ pushed' = Append(pushed, improvement)
    /\ ops' = ops + 1
    /\ UNCHANGED simVars
    /\ UNCHANGED libVars
    /\ UNCHANGED <<config, dynamic_inner, stat_test, rng, pc, iteration, delta,
                   parity_current, parity_baseline, last_improve, total_inner,
                   early_stopped, ties_count, significant_moves, history, it, result,
                   trace, executes, parity_calls, call>>

ConvReset ==
    /\ ops < MaxOps
    /\ convergence' = reset(convergence)
    /\ pushed' = <<>>
    /\ ops' = ops + 1
    /\ UNCHANGED simVars
    /\ UNCHANGED libVars
    /\ UNCHANGED <<config, dynamic_inner, stat_test, rng, pc, iteration, delta,
                   parity_current, parity_baseline, last_improve, total_inner,
                   early_stopped, ties_count, significant_moves, history, it, result,
                   trace, executes, parity_calls, call>>

ConvNext == ConvPush \/ ConvReset

ConvSpec == ConvInit /\ [][ConvNext]_vars

\* ------------------------------------------------------------------------
\* Pure functions applied to bounded inputs (specification FnSpec)
\* ------------------------------------------------------------------------
\* largest inner_max passed to compute_count
MaxInnerArg == 7

\* last_improve arguments, as signed rationals
ImproveArgs ==
    { <<0, 1>>, <<5, 1000>>, <<-5, 1000>>, <<19, 1000>>, <<20, 1000>>, <<40, 1000>>,
      <<-40, 1000>>, <<59, 1000>>, <<60, 1000>>, <<200, 1000>>, <<-200, 1000>>,
      <<1, 1000000000>>, <<3, 1000000000>>, <<-7, 1000000000>> }

\* threshold arguments (> 0), as rationals: 0.02, 0.03, 0.015, 1e-9, 5e-10, 1.5e-9
ThresholdArgs ==
    { <<20, 1000>>, <<30, 1000>>, <<15, 1000>>, <<1, 1000000000>>,
      <<1, 2000000000>>, <<3, 2000000000>> }

FnInit ==
    /\ EngineIdle
    /\ convergence = Convergence_new(BaseConfig.qubits, THRESHOLD_5Q)
    /\ pushed = <<>>
    /\ call = NoCall
    /\ ops = 0
    /\ SimIdle
    /\ LibIdle

CallComputeCount ==
    /\ call = NoCall
    /\ \E g \in ImproveArgs, thr \in ThresholdArgs, m \in 1..MaxInnerArg :
        call' = [ op |-> "compute_count", last_improve |-> g, threshold |-> thr,
                  inner_max |-> m,
                  result |-> compute_count(DynamicInner_new(m), g, thr) ]
    /\ UNCHANGED simVars
    /\ UNCHANGED libVars
    /\ UNCHANGED <<engineVars, pushed, ops>>

\* confidence levels, over LevelScale
LevelArgs == { 800, 850, 900, 925, 950, 975, 990 }

\* shot counts, around the two thresholds of adaptive_critical
ShotArgs == { 0, 100, 4095, 4096, 8192, 16383, 16384 }

\* noise levels, over LevelScale, around the threshold of adaptive_critical
NoiseArgs == { 0, 20, 21, 60 }

\* parities, over ParityScale
ParityArgs == { -100, -20, 0, 3, 5, 20, 80, 100 }

\* StatisticalTest::z_critical on a test of either mode
CallZCritical ==
    /\ call = NoCall
    /\ \E mode \in {"Fixed", "Adaptive"}, level \in LevelArgs, shots \in ShotArgs,
          noise \in NoiseArgs :
        call' = [ op |-> "z_critical", mode |-> mode, level |-> level,
                  shots |-> shots, noise |-> noise,
                  result |-> z_critical(StatisticalTest_new(mode, level), shots, noise) ]
    /\ UNCHANGED simVars
    /\ UNCHANGED libVars
    /\ UNCHANGED <<engineVars, pushed, ops>>

\* StatisticalTest::test on a test of either mode
CallTest ==
    /\ call = NoCall
    /\ \E mode \in {"Fixed", "Adaptive"}, level \in LevelArgs, shots \in ShotArgs,
          noise \in NoiseArgs, parity_plus \in ParityArgs, parity_minus \in ParityArgs :
        call' = [ op |-> "test", mode |-> mode, level |-> level,
                  shots |-> shots, noise |-> noise,
                  parity_plus |-> parity_plus, parity_minus |-> parity_minus,
                  result |-> test(StatisticalTest_new(mode, level), parity_plus,
                                  parity_minus, shots, noise) ]
    /\ UNCHANGED simVars
    /\ UNCHANGED libVars
    /\ UNCHANGED <<engineVars, pushed, ops>>

\* counts mappings: up to three bitstrings of two qubits, each seen once or twice
CountsArgs ==
    UNION { [ ks -> {1, 2} ] : ks \in SUBSET { <<0, 0>>, <<0, 1>>, <<1, 1>> } }

\* the shots recorded in an ExecutionResult
ResultShotArgs == { 0, 1, 2, 3 }

\* Parity::p_even, p_odd and expectation on one counts mapping
CallParity ==
    /\ call = NoCall
    /\ \E counts \in CountsArgs :
        call' = [ op |-> "parity", counts |-> counts,
                  p_even |-> Parity_p_even(counts),
                  p_odd |-> Parity_p_odd(counts),
                  expectation |-> Parity_expectation(counts) ]
    /\ UNCHANGED simVars
    /\ UNCHANGED libVars
    /\ UNCHANGED <<engineVars, pushed, ops>>

\* ExecutionResult::p_even, p_odd and parity_expectation on one result
CallExecutionResult ==
    /\ call = NoCall
    /\ \E counts \in CountsArgs, shots \in ResultShotArgs :
        LET self == ExecutionResult_new(counts, shots)
        IN  call' = [ op |-> "execution_result", counts |-> counts, shots |-> shots,
                      p_even |-> p_even(self),
                      p_odd |-> p_odd(self),
                      expectation |-> parity_expectation(self) ]
    /\ UNCHANGED simVars
    /\ UNCHANGED libVars
    /\ UNCHANGED <<engineVars, pushed, ops>>

\* the caller has taken the result and may call again
CallReturn ==
    /\ call # NoCall
    /\ call' = NoCall
    /\ UNCHANGED simVars
    /\ UNCHANGED libVars
    /\ UNCHANGED <<engineVars, pushed, ops>>

FnNext ==
    \/ CallComputeCount
    \/ CallZCritical
    \/ CallTest
    \/ CallParity
    \/ CallExecutionResult
    \/ CallReturn

FnSpec == FnInit /\ [][FnNext]_vars

\* ------------------------------------------------------------------------
\* niso_backend::simulator::SimulatorBackend (specification SimSpec)
\* ------------------------------------------------------------------------
\* SimulatorBackend::new
SimulatorBackend_new(num_qubits, noise_model) ==
    [ num_qubits |-> num_qubits, noise_model |-> noise_model, seed |-> NoSeed ]

\* SimulatorBackend::with_seed
with_seed(self, seed) == [ self EXCEPT !.seed = Some(seed) ]

\* Complex numbers with integer parts, as <<re, im>>
CAdd(a, b) == <<a[1] + b[1], a[2] + b[2]>>

CSub(a, b) == <<a[1] - b[1], a[2] - b[2]>>

CNeg(a) == <<-a[1], -a[2]>>

\* a * Complex::new(0.0, 1.0)
CMulI(a) == <<-a[2], a[1]>>

\* a * Complex::new(0.0, -1.0)
CMulNegI(a) == <<a[2], -a[1]>>

norm_squared(a) == a[1] * a[1] + a[2] * a[2]

\* i & (1 << q) != 0
BitSet(i, q) == (i \div Pow(2, q)) % 2 = 1

\* The state vector: amp[i] / sqrt(2)^k is the amplitude of basis state i,
\* so that every probability is the exact rational norm_squared(amp[i]) / 2^k.
InitialState(n) ==
    [ amp |-> [ i \in 0..(Pow(2, n) - 1) |-> IF i = 0 THEN <<1, 0>> ELSE <<0, 0>> ],
      k |-> 0 ]

\* the closures the single-qubit gates hand to apply_single_qubit_gate, by
\* gate: the new pair for the pair (a, b)
Closure(f, a, b) ==
    CASE f = "h" -> <<CAdd(a, b), CSub(a, b)>>
      [] f = "x" -> <<b, a>>
      [] f = "y" -> <<CMulNegI(b), CMulI(a)>>
      [] f = "z" -> <<a, CNeg(b)>>
      [] f = "s" -> <<a, CMulI(b)>>
      [] f = "sdg" -> <<a, CMulNegI(b)>>

\* apply_single_qubit_gate: f maps each pair (state[i], state[i | mask]) with
\* bit q of i clear to the new pair; dk is the number of 1/sqrt(2) factors
apply_single_qubit_gate(state, q, n, f, dk) ==
    [ amp |-> [ i \in DOMAIN state.amp |->
                  IF BitSet(i, q)
                  THEN Closure(f, state.amp[i - Pow(2, q)], state.amp[i])[2]
                  ELSE Closure(f, state.amp[i], state.amp[i + Pow(2, q)])[1] ],
      k |-> state.k + dk ]

apply_h(state, q, n) == apply_single_qubit_gate(state, q, n, "h", 1)

apply_x(state, q, n) == apply_single_qubit_gate(state, q, n, "x", 0)

apply_y(state, q, n) == apply_single_qubit_gate(state, q, n, "y", 0)

apply_z(state, q, n) == apply_single_qubit_gate(state, q, n, "z", 0)

apply_s(state, q, n) == apply_single_qubit_gate(state, q, n, "s", 0)

apply_sdg(state, q, n) == apply_single_qubit_gate(state, q, n, "sdg", 0)

apply_cnot(state, control, target, n) ==
    [ state EXCEPT !.amp =
        [ i \in DOMAIN state.amp |->
            IF BitSet(i, control)
            THEN IF BitSet(i, target)
                 THEN state.amp[i - Pow(2, target)]
                 ELSE state.amp[i + Pow(2, target)]
            ELSE state.amp[i] ] ]

apply_cz(state, q1, q2, n) ==
    [ state EXCEPT !.amp =
        [ i \in DOMAIN state.amp |->
            IF BitSet(i, q1) /\ BitSet(i, q2) THEN CNeg(state.amp[i])
            ELSE state.amp[i] ] ]

\* i ^ mask1 ^ mask2 for an index whose bits q1 and q2 differ
SwapIndex(i, q1, q2) ==
    IF BitSet(i, q1) THEN i - Pow(2, q1) + Pow(2, q2) ELSE i + Pow(2, q1) - Pow(2, q2)

apply_swap(state, q1, q2, n) ==
    [ state EXCEPT !.amp =
        [ i \in DOMAIN state.amp |->
            IF BitSet(i, q1) # BitSet(i, q2) THEN state.amp[SwapIndex(i, q1, q2)]
            ELSE state.amp[i] ] ]

\* the ideal gate of apply_gate
apply_ideal(state, gate, n) ==
    CASE gate.name = "H" -> apply_h(state, gate.qubits[1], n)
      [] gate.name = "X" -> apply_x(state, gate.qubits[1], n)
      [] gate.name = "Y" -> apply_y(state, gate.qubits[1], n)
      [] gate.name = "Z" -> apply_z(state, gate.qubits[1], n)
      [] gate.name = "S" -> apply_s(state, gate.qubits[1], n)
      [] gate.name = "Sdg" -> apply_sdg(state, gate.qubits[1], n)
      [] gate.name = "Cnot" -> apply_cnot(state, gate.qubits[1], gate.qubits[2], n)
      [] gate.name = "Cz" -> apply_cz(state, gate.qubits[1], gate.qubits[2], n)
      [] gate.name = "Swap" -> apply_swap(state, gate.qubits[1], gate.qubits[2], n)
      [] OTHER -> state

\* rng.gen::<f64>() < rate, for the draw r / RngMod and the rate over ErrScale
DrawBelow(r, rate) == r * ErrScale < rate * RngMod

\* apply_random_error: a random Pauli on the first qubit of the gate
apply_random_error(self, state, gate, n, r) ==
    IF qubits(gate) = <<>>
    THEN [ state |-> state, rng |-> r, pauli |-> "None", target |-> -1 ]
    ELSE LET q == qubits(gate)[1]
             r1 == NextRng(r)
             pick == r1 % 3
         IN  [ state |-> CASE pick = 0 -> apply_x(state, q, n)
                           [] pick = 1 -> apply_y(state, q, n)
                           [] OTHER -> apply_z(state, q, n),
               rng |-> r1,
               pauli |-> CASE pick = 0 -> "X" [] pick = 1 -> "Y" [] OTHER -> "Z",
               target |-> q ]

\* apply_gate: the state and the generator after the gate
apply_gate(self, state, gate, n, r) ==
    LET error_rate == IF is_two_qubit(gate) THEN self.noise_model.gate_error_2q
                      ELSE IF is_single_qubit(gate) THEN self.noise_model.gate_error_1q
                      ELSE 0
    IN  IF error_rate > 0
        THEN LET r1 == GenF64(r)
             IN  IF DrawBelow(r1, error_rate)
                 THEN apply_random_error(self, state, gate, n, r1)
                          @@ [ fired |-> TRUE, error_rate |-> error_rate ]
                 ELSE [ state |-> apply_ideal(state, gate, n), rng |-> r1,
                        pauli |-> "None", target |-> -1,
                        fired |-> FALSE, error_rate |-> error_rate ]
        ELSE [ state |-> apply_ideal(state, gate, n), rng |-> r,
               pauli |-> "None", target |-> -1,
               fired |-> FALSE, error_rate |-> error_rate ]

\* probs.iter().take(i + 1).sum(), over 2^k
RECURSIVE CumSum(_, _)
CumSum(state, i) ==
    IF i < 0 THEN 0 ELSE norm_squared(state.amp[i]) + CumSum(state, i - 1)

\* the sampling loop of measure_state for the draw r / RngMod
SampleOutcome(state, r) ==
    LET last == Cardinality(DOMAIN state.amp) - 1
        hits == { i \in DOMAIN state.amp :
                    r * Pow(2, state.k) < CumSum(state, i) * RngMod }
    IN  IF hits = {} THEN last
        ELSE CHOOSE i \in hits : \A j \in hits : i <= j

\* the readout-error loop of measure_state, from bit on
RECURSIVE ReadoutFlips(_, _, _, _, _)
ReadoutFlips(self, res, bit, n, r) ==
    IF bit >= n THEN [ result |-> res, rng |-> r ]
    ELSE LET r1 == GenF64(r)
             flipped == IF BitSet(res, bit) THEN res - Pow(2, bit)
                        ELSE res + Pow(2, bit)
         IN  ReadoutFlips(self,
                          IF DrawBelow(r1, self.noise_model.readout_error)
                          THEN flipped ELSE res,
                          bit + 1, n, r1)

\* number of binary digits of x (1 for 0)
RECURSIVE BinaryDigits(_)
BinaryDigits(x) == IF x < 2 THEN 1 ELSE 1 + BinaryDigits(x \div 2)

\* format!("{:0width$b}", result, width = n): the binary digits of the result,
\* most significant first, zero-padded on the left to at least n digits
FormatBinary(res, n) ==
    LET w == Max2(n, BinaryDigits(res))
    IN  [ p \in 1..w |-> (res \div Pow(2, w - p)) % 2 ]

\* measure_state: the bitstring and the generator after the measurement
measure_state(self, state, n, r) ==
    LET r1 == GenF64(r)
        outcome == SampleOutcome(state, r1)
        read == IF self.noise_model.readout_error > 0
                THEN ReadoutFlips(self, outcome, 0, n, r1)
                ELSE [ result |-> outcome, rng |-> r1 ]
    IN  [ bitstring |-> FormatBinary(read.result, n), rng |-> read.rng,
          result |-> read.result ]

\* *counts.entry(bitstring).or_insert(0) += 1
CountsAdd(counts, bitstring) ==
    IF bitstring \in DOMAIN counts
    THEN [ counts EXCEPT ![bitstring] = @ + 1 ]
    ELSE counts @@ (bitstring :> 1)

\* a generator seeded from entropy whatever the seed
rng_from_entropy(self, entropy) == entropy

\* the generator execute creates; entropy is the state StdRng::from_entropy()
\* would produce
execute_rng(self, entropy) == MakeRng(self.seed, entropy)

\* no execute call is running
NoExec == [ running |-> FALSE ]

\* largest backend explored, in qubits
MaxSimQubits == 2

\* largest shot count passed to execute
MaxShots == 2

\* largest number of execute calls observed
MaxRuns == 2

\* seeds passed to with_seed
SimSeeds == {42}

\* p_depol values passed to NoiseModel::from_depol, over LevelScale
DepolLevels == {20}

NoiseModels == {NoiseModel_ideal} \cup { from_depol(p) : p \in DepolLevels }

Circuits ==
    { Circuit_new(0),
      [ num_qubits |-> 1, gates |-> <<MkGate("H", <<0>>)>> ],
      [ num_qubits |-> 2,
        gates |-> <<MkGate("H", <<0>>), MkGate("Cnot", <<0, 1>>)>> ],
      [ num_qubits |-> 2,
        gates |-> <<MkGate("Y", <<0>>), MkGate("H", <<1>>), MkGate("S", <<1>>),
                    MkGate("Swap", <<0, 1>>), MkGate("Barrier", <<0, 1>>)>> ] }

\* SimulatorBackend::new(num_qubits, noise_model)
SimInit ==
    /\ EngineIdle
    /\ convergence = Convergence_new(BaseConfig.qubits, THRESHOLD_5Q)
    /\ pushed = <<>>
    /\ call = NoCall
    /\ ops = 0
    /\ \E nq \in 1..MaxSimQubits, nm \in NoiseModels :
        backend = SimulatorBackend_new(nq, nm)
    /\ runs = <<>>
    /\ exec = NoExec
    /\ LibIdle

SimWithSeed ==
    /\ exec = NoExec
    /\ Len(runs) < MaxRuns
    /\ \E seed \in SimSeeds : backend' = with_seed(backend, seed)
    /\ UNCHANGED libVars
    /\ UNCHANGED <<engineVars, pushed, call, ops, runs, exec>>

\* the qubit check of execute, refusing a circuit as wide as the backend
qubit_check_strict(self, circuit) ==
    IF circuit.num_qubits >= self.num_qubits THEN "QubitOutOfRange" ELSE "Ok"

\* the qubit check of execute: the error it returns, or "Ok"
qubit_check(self, circuit) ==
    IF circuit.num_qubits > self.num_qubits THEN "QubitOutOfRange" ELSE "Ok"

\* execute up to the first shot: the qubit check, the generator, and the
\* empty counts of simulate
SimExecute ==
    /\ exec = NoExec
    /\ Len(runs) < MaxRuns
    /\ \E circuit \in Circuits, shots \in 0..MaxShots, entropy \in EntropyStates :
        IF qubit_check(backend, circuit) # "Ok"
        THEN /\ runs' = Append(runs, [ backend |-> backend, circuit |-> circuit,
                                       shots |-> shots,
                                       result |-> [ ok |-> FALSE,
                                                    error |-> qubit_check(backend, circuit) ] ])
             /\ exec' = exec
        ELSE /\ exec' = [ running |-> TRUE, circuit |-> circuit, shots |-> shots,
                          left |-> shots, counts |-> [ b \in {} |-> 0 ],
                          rng |-> execute_rng(backend, entropy),
                          g |-> 1, state |-> InitialState(circuit.num_qubits),
                          measured |-> {} ]
             /\ runs' = runs
    /\ UNCHANGED libVars
    /\ UNCHANGED <<engineVars, pushed, call, ops, backend>>

\* simulate_single_shot: one iteration of its gate loop
SimGate ==
    /\ exec # NoExec
    /\ exec.left > 0
    /\ exec.g <= Len(exec.circuit.gates)
    /\ LET a == apply_gate(backend, exec.state, exec.circuit.gates[exec.g],
                           exec.circuit.num_qubits, exec.rng)
       IN  exec' = [ exec EXCEPT !.g = @ + 1, !.state = a.state, !.rng = a.rng ]
    /\ UNCHANGED libVars
    /\ UNCHANGED <<engineVars, pushed, call, ops, backend, runs>>

\* simulate_single_shot after its gate loop: the measurement, and the end of
\* one iteration of the shot loop of simulate
SimMeasure ==
    /\ exec # NoExec
    /\ exec.left > 0
    /\ exec.g > Len(exec.circuit.gates)
    /\ LET m == measure_state(backend, exec.state, exec.circuit.num_qubits, exec.rng)
       IN  exec' = [ exec EXCEPT !.left = @ - 1,
                                 !.counts = CountsAdd(@, m.bitstring),
                                 !.rng = m.rng,
                                 !.measured = @ \cup {m.result},
                                 !.g = 1,
                                 !.state = InitialState(exec.circuit.num_qubits) ]
    /\ UNCHANGED libVars
    /\ UNCHANGED <<engineVars, pushed, call, ops, backend, runs>>

\* execute returns the ExecutionResult
SimReturn ==
    /\ exec # NoExec
    /\ exec.left = 0
    /\ runs' = Append(runs, [ backend |-> backend, circuit |-> exec.circuit,
                              shots |-> exec.shots, measured |-> exec.measured,
                              result |-> [ ok |-> TRUE, counts |-> exec.counts,
                                           shots |-> exec.shots,
                                           seed |-> backend.seed ] ])
    /\ exec' = NoExec
    /\ UNCHANGED libVars
    /\ UNCHANGED <<engineVars, pushed, call, ops, backend>>

SimNext == SimWithSeed \/ SimExecute \/ SimGate \/ SimMeasure \/ SimReturn

SimSpec == SimInit /\ [][SimNext]_vars

\* ------------------------------------------------------------------------
\* SimulatorBackend::apply_gate on single gates (specification GateSpec)
\* ------------------------------------------------------------------------
\* two-qubit states a gate is applied to: |00> and the state after h(0), y(1)
GateStates ==
    { InitialState(2), apply_y(apply_h(InitialState(2), 0, 2), 1, 2) }

\* gates applied: one and two qubits, and the zero-qubit measure-all
AppliedGates ==
    { MkGate("H", <<0>>), MkGate("S", <<1>>), MkGate("Cnot", <<0, 1>>),
      MkGate("Cnot", <<1, 0>>), MkGate("Swap", <<0, 1>>), MkGate("MeasureAll", <<>>) }

\* noise models of the backend: ideal, and depolarizing at 0.02 and 0.06
GateNoiseModels == { NoiseModel_ideal, from_depol(20), from_depol(60) }

GateInit ==
    /\ EngineIdle
    /\ convergence = Convergence_new(BaseConfig.qubits, THRESHOLD_5Q)
    /\ pushed = <<>>
    /\ call = NoCall
    /\ ops = 0
    /\ SimIdle
    /\ LibIdle

\* apply_gate on one gate, state and generator state
CallApplyGate ==
    /\ call = NoCall
    /\ \E nm \in GateNoiseModels, state \in GateStates, gate \in AppliedGates,
          r \in 0..(RngMod - 1) :
        LET self == SimulatorBackend_new(2, nm)
        IN  call' = [ op |-> "apply_gate", self |-> self, state |-> state,
                      gate |-> gate, rng |-> r,
                      result |-> apply_gate(self, state, gate, 2, r) ]
    /\ UNCHANGED simVars
    /\ UNCHANGED libVars
    /\ UNCHANGED <<engineVars, pushed, ops>>

GateNext == CallApplyGate \/ CallReturn

GateSpec == GateInit /\ [][GateNext]_vars

\* ------------------------------------------------------------------------
\* A Circuit driven through its public methods, directly and through a
\* CircuitBuilder (specification CircSpec)
\* ------------------------------------------------------------------------
\* largest qubit count of a circuit, and the one qubit index beyond every circuit
MaxCircQubits == 2

\* longest gate sequence built or passed in one call
MaxGates == 2

\* gates offered to the circuit: single-qubit, two-qubit and a zero-qubit one
GateInputs ==
    { MkGate("H", <<q>>) : q \in 0..MaxCircQubits }
        \cup { MkGate("Cnot", <<q, q + 1>>) : q \in 0..(MaxCircQubits - 1) }
        \cup { MkGate("MeasureAll", <<>>) }

GateSeqs == UNION { [1..k -> GateInputs] : k \in 0..MaxGates }

\* Circuit::new
CircInit ==
    /\ EngineIdle
    /\ convergence = Convergence_new(BaseConfig.qubits, THRESHOLD_5Q)
    /\ pushed = <<>>
    /\ call = NoCall
    /\ ops = 0
    /\ SimIdle
    /\ \E n \in 0..MaxCircQubits : circ = Circuit_new(n)
    /\ circ_last = NoOp
    /\ builder = NoBuilder
    /\ NmIdle
    /\ SchedIdle
    /\ PipeIdle

\* Circuit::from_gates: a new circuit, or an error and no circuit. It is a
\* constructor and reads nothing of the circuit in hand, so it is taken
\* where that circuit is empty
CircFromGates ==
    /\ builder.stage # "building"
    /\ is_empty(circ)
    /\ \E n \in 0..MaxCircQubits, gs \in GateSeqs :
        LET r == from_gates(n, gs)
        IN  /\ circ' = IF r.ok THEN r.circuit ELSE circ
            /\ circ_last' = [ op |-> "from_gates", ok |-> r.ok ]
    /\ UNCHANGED builder
    /\ UNCHANGED <<engineVars, pushed, call, ops, simVars, nmVars, schedVars, pipeVars>>

\* Circuit::add_gate
CircAddGate ==
    /\ builder.stage # "building"
    /\ Len(circ.gates) < MaxGates
    /\ \E gate \in GateInputs :
        LET r == add_gate(circ, gate)
        IN  /\ circ' = r.circuit
            /\ circ_last' = [ op |-> "add_gate", ok |-> r.ok, gate |-> gate,
                              before |-> circ ]
    /\ UNCHANGED builder
    /\ UNCHANGED <<engineVars, pushed, call, ops, simVars, nmVars, schedVars, pipeVars>>

\* Circuit::add_gates
CircAddGates ==
    /\ builder.stage # "building"
    /\ \E gs \in GateSeqs :
        /\ Len(circ.gates) + Len(gs) <= MaxGates
        /\ LET r == add_gates(circ, gs)
           IN  /\ circ' = r.circuit
               /\ circ_last' = [ op |-> "add_gates", ok |-> r.ok ]
    /\ UNCHANGED builder
    /\ UNCHANGED <<engineVars, pushed, call, ops, simVars, nmVars, schedVars, pipeVars>>

\* Circuit::clear
CircClear ==
    /\ builder.stage # "building"
    /\ circ' = clear(circ)
    /\ circ_last' = [ op |-> "clear", ok |-> TRUE ]
    /\ UNCHANGED builder
    /\ UNCHANGED <<engineVars, pushed, call, ops, simVars, nmVars, schedVars, pipeVars>>

\* CircuitBuilder::new
BuilderNew ==
    /\ builder.stage # "building"
    /\ \E n \in 0..MaxCircQubits : circ' = Circuit_new(n)
    /\ circ_last' = NoOp
    /\ builder' = [ stage |-> "building", rejected |-> 0 ]
    /\ UNCHANGED <<engineVars, pushed, call, ops, simVars, nmVars, schedVars, pipeVars>>

\* CircuitBuilder::h, cnot, measure_all, ...
BuilderGate ==
    /\ builder.stage = "building"
    /\ Len(circ.gates) + builder.rejected < MaxGates
    /\ \E gate \in GateInputs :
        LET r == add_gate(circ, gate)
        IN  /\ circ' = builder_gate(circ, gate)
            /\ circ_last' = [ op |-> "add_gate", ok |-> r.ok, gate |-> gate,
                              before |-> circ ]
            /\ builder' = [ builder EXCEPT
                                !.rejected = IF r.ok THEN @ ELSE @ + 1 ]
    /\ UNCHANGED <<engineVars, pushed, call, ops, simVars, nmVars, schedVars, pipeVars>>

\* CircuitBuilder::build
BuilderBuild ==
    /\ builder.stage = "building"
    /\ builder' = [ stage |-> "built", rejected |-> builder.rejected,
                    method |-> "build", ok |-> build(circ).ok ]
    /\ circ' = build(circ).circuit
    /\ UNCHANGED circ_last
    /\ UNCHANGED <<engineVars, pushed, call, ops, simVars, nmVars, schedVars, pipeVars>>

\* CircuitBuilder::build_validated
BuilderBuildValidated ==
    /\ builder.stage = "building"
    /\ builder' = [ stage |-> "built", rejected |-> builder.rejected,
                    method |-> "build_validated", ok |-> build_validated(circ).ok ]
    /\ UNCHANGED <<circ, circ_last>>
    /\ UNCHANGED <<engineVars, pushed, call, ops, simVars, nmVars, schedVars, pipeVars>>

CircNext ==
    \/ CircFromGates
    \/ CircAddGate
    \/ CircAddGates
    \/ CircClear
    \/ BuilderNew
    \/ BuilderGate
    \/ BuilderBuild
    \/ BuilderBuildValidated

CircSpec == CircInit /\ [][CircNext]_vars

\* ------------------------------------------------------------------------
\* A NoiseModel obtained through its public constructors and builder
\* methods (specification NoiseSpec)
\* ------------------------------------------------------------------------
\* T1 and T2 arguments
TimeInputs == { Finite(0), Finite(50), Finite(100), Finite(250), INFINITY }

\* error-rate arguments, over ErrScale: 0, 0.001 and one above 1
ErrInputs == { 0, 40, ErrScale + 40 }

\* p_depol arguments, over LevelScale: inside and outside [0, 0.06]
DepolInputs == { 20, 70 }

\* NoiseModel::ideal
NoiseInit ==
    /\ EngineIdle
    /\ convergence = Convergence_new(BaseConfig.qubits, THRESHOLD_5Q)
    /\ pushed = <<>>
    /\ call = NoCall
    /\ ops = 0
    /\ SimIdle
    /\ CircIdle
    /\ SchedIdle
    /\ PipeIdle
    /\ nmodel = NoiseModel_ideal
    /\ nm_last = [ op |-> "ideal", ok |-> TRUE ]

\* NoiseModel::new
NmNew ==
    /\ \E t1_us \in TimeInputs, t2_us \in TimeInputs, e \in ErrInputs :
        LET r == NoiseModel_new(t1_us, t2_us, e, e, e)
        IN  /\ nmodel' = IF r.ok THEN r.model ELSE nmodel
            /\ nm_last' = [ op |-> "new", ok |-> r.ok ]
    /\ UNCHANGED <<engineVars, pushed, call, ops, simVars, circVars, schedVars, pipeVars>>

\* NoiseModel::ideal
NmIdeal ==
    /\ nmodel' = NoiseModel_ideal
    /\ nm_last' = [ op |-> "ideal", ok |-> TRUE ]
    /\ UNCHANGED <<engineVars, pushed, call, ops, simVars, circVars, schedVars, pipeVars>>

\* NoiseModel::ibm_typical
NmIbmTypical ==
    /\ nmodel' = ibm_typical
    /\ nm_last' = [ op |-> "ibm_typical", ok |-> TRUE ]
    /\ UNCHANGED <<engineVars, pushed, call, ops, simVars, circVars, schedVars, pipeVars>>

\* NoiseModel::high_quality
NmHighQuality ==
    /\ nmodel' = high_quality
    /\ nm_last' = [ op |-> "high_quality", ok |-> TRUE ]
    /\ UNCHANGED <<engineVars, pushed, call, ops, simVars, circVars, schedVars, pipeVars>>

\* NoiseModel::noisy_test
NmNoisyTest ==
    /\ \E depol \in DepolInputs : nmodel' = noisy_test(depol)
    /\ nm_last' = [ op |-> "noisy_test", ok |-> TRUE ]
    /\ UNCHANGED <<engineVars, pushed, call, ops, simVars, circVars, schedVars, pipeVars>>

\* NoiseModel::from_depol: InvalidNoiseLevel outside [0, 0.06]
NmFromDepol ==
    /\ \E p_depol \in DepolInputs :
        IF p_depol < 0 \/ p_depol > 60
        THEN /\ nm_last' = [ op |-> "from_depol", ok |-> FALSE ]
             /\ UNCHANGED nmodel
        ELSE /\ nm_last' = [ op |-> "from_depol", ok |-> TRUE ]
             /\ nmodel' = from_depol(p_depol)
    /\ UNCHANGED <<engineVars, pushed, call, ops, simVars, circVars, schedVars, pipeVars>>

\* NoiseModel::with_crosstalk
NmWithCrosstalk ==
    /\ \E ct \in ErrInputs : nmodel' = with_crosstalk(nmodel, ct)
    /\ nm_last' = [ op |-> "with_crosstalk", ok |-> TRUE ]
    /\ UNCHANGED <<engineVars, pushed, call, ops, simVars, circVars, schedVars, pipeVars>>

\* NoiseModel::with_t1
NmWithT1 ==
    /\ \E t1_us \in TimeInputs : nmodel' = with_t1(nmodel, t1_us)
    /\ nm_last' = [ op |-> "with_t1", ok |-> TRUE ]
    /\ UNCHANGED <<engineVars, pushed, call, ops, simVars, circVars, schedVars, pipeVars>>

\* NoiseModel::with_t2
NmWithT2 ==
    /\ \E t2_us \in TimeInputs : nmodel' = with_t2(nmodel, t2_us)
    /\ nm_last' = [ op |-> "with_t2", ok |-> TRUE ]
    /\ UNCHANGED <<engineVars, pushed, call, ops, simVars, circVars, schedVars, pipeVars>>

\* NoiseModel::with_gate_error_1q
NmWithGateError1q ==
    /\ \E error \in ErrInputs : nmodel' = with_gate_error_1q(nmodel, error)
    /\ nm_last' = [ op |-> "with_gate_error_1q", ok |-> TRUE ]
    /\ UNCHANGED <<engineVars, pushed, call, ops, simVars, circVars, schedVars, pipeVars>>

\* NoiseModel::with_gate_error_2q
NmWithGateError2q ==
    /\ \E error \in ErrInputs : nmodel' = with_gate_error_2q(nmodel, error)
    /\ nm_last' = [ op |-> "with_gate_error_2q", ok |-> TRUE ]
    /\ UNCHANGED <<engineVars, pushed, call, ops, simVars, circVars, schedVars, pipeVars>>

\* NoiseModel::with_readout_error
NmWithReadoutError ==
    /\ \E error \in ErrInputs : nmodel' = with_readout_error(nmodel, error)
    /\ nm_last' = [ op |-> "with_readout_error", ok |-> TRUE ]
    /\ UNCHANGED <<engineVars, pushed, call, ops, simVars, circVars, schedVars, pipeVars>>

NoiseNext ==
    \/ NmNew
    \/ NmIdeal
    \/ NmIbmTypical
    \/ NmHighQuality
    \/ NmNoisyTest
    \/ NmFromDepol
    \/ NmWithCrosstalk
    \/ NmWithT1
    \/ NmWithT2
    \/ NmWithGateError1q
    \/ NmWithGateError2q
    \/ NmWithReadoutError

NoiseSpec == NoiseInit /\ [][NoiseNext]_vars

\* ------------------------------------------------------------------------
\* Scheduler::compute_asap on bounded circuits (specification SchedSpec)
\* ------------------------------------------------------------------------
\* longest circuit scheduled
MaxSchedGates == 3

\* gates of the scheduled circuits: single-qubit, two-qubit, virtual (z under
\* the IBM overrides), measurement of all qubits and a barrier
SchedGates ==
    { MkGate("H", <<0>>), MkGate("H", <<1>>), MkGate("Z", <<2>>),
      MkGate("Cnot", <<0, 1>>), MkGate("Cnot", <<1, 2>>),
      MkGate("MeasureAll", <<>>), MkGate("Barrier", <<0, 1>>) }

\* the circuits Circuit::from_gates accepts, on 0, 2 and 3 qubits
SchedCircuits ==
    { from_gates(n, gs).circuit :
        <<n, gs>> \in { x \in {0, 2, 3} \X UNION { [1..k -> SchedGates] : k \in 0..MaxSchedGates } :
                          from_gates(x[1], x[2]).ok } }

GateTimeInputs ==
    { default_ibm, photonic, with_ibm_defaults(photonic),
      with_gate_time(default_ibm, "barrier", 20) }

SchedInit ==
    /\ EngineIdle
    /\ convergence = Convergence_new(BaseConfig.qubits, THRESHOLD_5Q)
    /\ pushed = <<>>
    /\ call = NoCall
    /\ ops = 0
    /\ SimIdle
    /\ CircIdle
    /\ NmIdle
    /\ PipeIdle
    /\ sched = NoSchedule

\* compute_asap up to its loop: the empty circuit returns at once
SchedCompute ==
    /\ sched.stage = "idle"
    /\ \E circuit \in SchedCircuits, gate_times \in GateTimeInputs :
        sched' =
            IF is_empty(circuit)
            THEN [ stage |-> "done", circuit |-> circuit, gate_times |-> gate_times,
                   seen |-> <<>>, idle |-> None,
                   schedule |-> CircuitSchedule_empty(circuit.num_qubits) ]
            ELSE [ stage |-> "running", circuit |-> circuit, gate_times |-> gate_times,
                   qubit_available |-> [ q \in 0..(circuit.num_qubits - 1) |-> 0 ],
                   scheduled_gates |-> <<>>, gate_idx |-> 0, seen |-> <<>> ]
    /\ UNCHANGED <<engineVars, pushed, call, ops, simVars, circVars, nmVars, pipeVars>>

\* one iteration of the loop of compute_asap
SchedGate ==
    /\ sched.stage = "running"
    /\ sched.gate_idx < Len(sched.circuit.gates)
    /\ LET gate == sched.circuit.gates[sched.gate_idx + 1]
           t == schedule_gate(gate, sched.qubit_available, sched.gate_times)
           after == update_availability(gate, t.end_time, sched.qubit_available,
                                        sched.circuit.num_qubits)
       IN  sched' = [ sched EXCEPT
                        !.scheduled_gates =
                            Append(@, ScheduledGate_new(sched.gate_idx, gate,
                                                        t.start_time, t.end_time)),
                        !.qubit_available = after,
                        !.gate_idx = @ + 1,
                        !.seen = Append(@, [ before |-> sched.qubit_available,
                                             after |-> after ]) ]
    /\ UNCHANGED <<engineVars, pushed, call, ops, simVars, circVars, nmVars, pipeVars>>

\* compute_asap after its loop: the total duration and the CircuitSchedule
SchedFinish ==
    /\ sched.stage = "running"
    /\ sched.gate_idx = Len(sched.circuit.gates)
    /\ sched' = [ stage |-> "done", circuit |-> sched.circuit,
                  gate_times |-> sched.gate_times, seen |-> sched.seen,
                  idle |-> None,
                  schedule |->
                      CircuitSchedule_new(
                          sched.scheduled_gates,
                          FoldMax({ sched.qubit_available[q] :
                                      q \in DOMAIN sched.qubit_available }),
                          sched.circuit.num_qubits,
                          sched.qubit_available) ]
    /\ UNCHANGED <<engineVars, pushed, call, ops, simVars, circVars, nmVars, pipeVars>>

\* CircuitSchedule::idle_times on the schedule compute_asap returned
SchedIdleTimes ==
    /\ sched.stage = "done"
    /\ sched.idle = None
    /\ sched' = [ sched EXCEPT !.idle = Some(idle_times(sched.schedule)) ]
    /\ UNCHANGED <<engineVars, pushed, call, ops, simVars, circVars, nmVars, pipeVars>>

\* the caller has taken the schedule and may schedule again
SchedReturn ==
    /\ sched.stage = "done"
    /\ sched' = NoSchedule
    /\ UNCHANGED <<engineVars, pushed, call, ops, simVars, circVars, nmVars, pipeVars>>

SchedNext ==
    SchedCompute \/ SchedGate \/ SchedFinish \/ SchedIdleTimes \/ SchedReturn

SchedSpec == SchedInit /\ [][SchedNext]_vars

\* ------------------------------------------------------------------------
\* A Pipeline driven through its public methods (specification PipeSpec)
\* ------------------------------------------------------------------------
\* configurations of the pipeline: two that validate and one that does not
PipeConfigs ==
    { NisoConfig_default_5q, NisoConfig_default_7q,
      [ NisoConfig_default_5q EXCEPT !.points = 0 ] }

\* theta and delta arguments of build_circuit, over DeltaScale
AngleArgs == { 0, 120000 }

\* Pipeline::new
PipeInit ==
    /\ EngineIdle
    /\ convergence = Convergence_new(BaseConfig.qubits, THRESHOLD_5Q)
    /\ pushed = <<>>
    /\ call = NoCall
    /\ ops = 0
    /\ SimIdle
    /\ CircIdle
    /\ NmIdle
    /\ sched = NoSchedule
    /\ optimizer = NoOptimizer
    /\ \E c \in PipeConfigs :
        pipeline = [ last |-> "new", ok |-> TRUE, state |-> PipelineState_new(c) ]

PipeCalibrate ==
    /\ pipeline' = [ last |-> "calibrate", ok |-> Pipeline_calibrate(pipeline.state).ok,
                     state |-> Pipeline_calibrate(pipeline.state).state ]
    /\ UNCHANGED <<engineVars, pushed, call, ops, simVars, circVars, nmVars, schedVars,
                   optimizer>>

PipeBuildCircuit ==
    /\ \E theta \in AngleArgs, d \in AngleArgs :
        pipeline' = [ last |-> "build_circuit",
                      ok |-> Pipeline_build_circuit(pipeline.state, theta, d).ok,
                      state |-> Pipeline_build_circuit(pipeline.state, theta, d).state ]
    /\ UNCHANGED <<engineVars, pushed, call, ops, simVars, circVars, nmVars, schedVars,
                   optimizer>>

PipeSchedule ==
    /\ pipeline' = [ last |-> "schedule", ok |-> Pipeline_schedule(pipeline.state).ok,
                     state |-> Pipeline_schedule(pipeline.state).state ]
    /\ UNCHANGED <<engineVars, pushed, call, ops, simVars, circVars, nmVars, schedVars,
                   optimizer>>

PipeOptimize ==
    /\ pipeline' = [ last |-> "optimize", ok |-> Pipeline_optimize(pipeline.state).ok,
                     state |-> Pipeline_optimize(pipeline.state).state ]
    /\ UNCHANGED <<engineVars, pushed, call, ops, simVars, circVars, nmVars, schedVars,
                   optimizer>>

PipeRun ==
    /\ pipeline' = [ last |-> "run", ok |-> Pipeline_run(pipeline.state).ok,
                     state |-> Pipeline_run(pipeline.state).state ]
    /\ UNCHANGED <<engineVars, pushed, call, ops, simVars, circVars, nmVars, schedVars,
                   optimizer>>

PipeReset ==
    /\ pipeline' = [ last |-> "reset", ok |-> TRUE,
                     state |-> Pipeline_reset(pipeline.state) ]
    /\ UNCHANGED <<engineVars, pushed, call, ops, simVars, circVars, nmVars, schedVars,
                   optimizer>>

PipeReconfigure ==
    /\ \E c \in PipeConfigs :
        pipeline' = [ last |-> "reconfigure", ok |-> TRUE,
                      state |-> Pipeline_reconfigure(pipeline.state, c) ]
    /\ UNCHANGED <<engineVars, pushed, call, ops, simVars, circVars, nmVars, schedVars,
                   optimizer>>

PipeNext ==
    \/ PipeCalibrate
    \/ PipeBuildCircuit
    \/ PipeSchedule
    \/ PipeOptimize
    \/ PipeRun
    \/ PipeReset
    \/ PipeReconfigure

PipeSpec == PipeInit /\ [][PipeNext]_vars

\* ------------------------------------------------------------------------
\* NisoOptimizer::optimize called repeatedly on one optimizer (specification
\* OptSpec); the engine it builds runs through the steps of Next
\* ------------------------------------------------------------------------
\* NisoConfig::with_seed
NisoConfig_with_seed(self, seed) == [ self EXCEPT !.seed = Some(seed) ]

\* NisoConfig::to_tqqc_config: TqqcConfig::for_qubits and the setters the
\* conversion calls; delta_init and seed keep the values of TqqcConfig::default_7q
to_tqqc_config(self) ==
    [ qubits |-> self.qubits, points |-> self.points, shots |-> self.shots,
      noise |-> self.noise, step_amp |-> self.step_amp, inner_max |-> self.inner_max,
      dynamic_inner |-> self.dynamic_inner,
      use_statistical_test |-> self.use_statistical_test,
      sig_mode |-> self.sig_mode, sig_level |-> self.sig_level,
      delta_mode |-> self.delta_mode, delta_init |-> 0, seed |-> NoSeed,
      basis_len |-> self.qubits ]

\* NisoConfig::to_noise_model
to_noise_model(self) ==
    LET made == NoiseModel_new(Finite(self.t1_us), Finite(self.t2_us),
                               self.gate_error_1q, self.gate_error_2q,
                               self.readout_error)
    IN  IF made.ok THEN made.model ELSE ibm_typical

\* NisoOptimizer::new
NisoOptimizer_new(cfg) == [ config |-> cfg, calibration |-> None, results |-> <<>> ]

\* NisoOptimizer::create_backend, for an optimizer without calibration
create_backend(self) ==
    LET made == SimulatorBackend_new(self.config.qubits, to_noise_model(self.config))
    IN  IF self.config.seed # None THEN with_seed(made, self.config.seed[1]) ELSE made

\* optimize calls made on one optimizer
MaxOptRuns == 2

\* configurations of the optimizer: seeded and unseeded, with and without the
\* statistical test, one outer iteration; and one that does not validate
OptConfigs ==
    { [ NisoConfig_default_5q EXCEPT !.points = 1, !.use_statistical_test = s,
                                     !.seed = sd ] :
        s \in BOOLEAN, sd \in { None, NisoConfig_with_seed(NisoConfig_default_5q, 42).seed } }
    \cup { [ NisoConfig_default_5q EXCEPT !.points = 0 ] }

\* NisoOptimizer::new
OptInit ==
    /\ EngineIdle
    /\ convergence = Convergence_new(BaseConfig.qubits, THRESHOLD_5Q)
    /\ pushed = <<>>
    /\ call = NoCall
    /\ ops = 0
    /\ SimIdle
    /\ CircIdle
    /\ NmIdle
    /\ sched = NoSchedule
    /\ pipeline = NoPipeline
    /\ \E c \in OptConfigs : optimizer = NisoOptimizer_new(c)

\* NisoOptimizer::optimize up to TqqcEngine::new: validate, create_backend,
\* to_tqqc_config, and the engine's constructor
OptStart ==
    /\ pc = "idle"
    /\ Len(optimizer.results) < MaxOptRuns
    /\ IF NisoConfig_validate(optimizer.config) # "Ok"
       THEN /\ optimizer' = [ optimizer EXCEPT !.results = Append(@, [ ok |-> FALSE ]) ]
            /\ UNCHANGED <<engineVars, simVars>>
       ELSE /\ backend' = create_backend(optimizer)
            /\ config' = to_tqqc_config(optimizer.config)
            /\ convergence' = from_noise(config'.qubits, config'.noise)
            /\ dynamic_inner' = DynamicInner_new(config'.inner_max)
            /\ stat_test' = StatisticalTest_new(config'.sig_mode, config'.sig_level)
            /\ \E e \in EntropyStates : rng' = MakeRng(config'.seed, e)
            /\ pc' = "start"
            /\ iteration' = 0
            /\ delta' = 0
            /\ parity_current' = 0
            /\ parity_baseline' = 0
            /\ last_improve' = 0
            /\ total_inner' = 0
            /\ early_stopped' = FALSE
            /\ ties_count' = 0
            /\ significant_moves' = 0
            /\ history' = <<>>
            /\ it' = NoIt
            /\ result' = NoResult
            /\ trace' = <<>>
            /\ executes' = 0
            /\ parity_calls' = <<>>
            /\ UNCHANGED <<runs, exec, optimizer>>
    /\ UNCHANGED <<pushed, call, ops, circVars, nmVars, schedVars, pipeline>>

\* the rest of NisoOptimizer::optimize once engine.optimize has returned: the
\* OptimizationResult, without its wall-clock time
OptReturn ==
    /\ pc = "done"
    /\ optimizer' =
        [ optimizer EXCEPT !.results =
            Append(@, [ ok |-> TRUE, tqqc_result |-> result,
                        circuit_executions |-> result.total_inner_iterations * 2 + 1,
                        measured |-> parity_calls ]) ]
    /\ pc' = "idle"
    /\ UNCHANGED <<config, convergence, dynamic_inner, stat_test, rng, iteration,
                   delta, parity_current, parity_baseline, last_improve, total_inner,
                   early_stopped, ties_count, significant_moves, history, it, result,
                   trace, executes, parity_calls, pushed, call, ops>>
    /\ UNCHANGED <<simVars, circVars, nmVars, schedVars, pipeline>>

OptNext ==
    \/ OptStart
    \/ Baseline
    \/ BeginOuter
    \/ InnerStep
    \/ EndOuter
    \/ Finish
    \/ OptReturn

OptSpec == OptInit /\ [][OptNext]_vars

\* ------------------------------------------------------------------------
\* Properties of the engine (specification Spec)
\* ------------------------------------------------------------------------
\* both conditions of the Convergence Controller held after the push of
\* outer iteration i
BothConditions(i) == trace[i].window_ok /\ trace[i].cumulative_ok

\* the running (delta, parity) after outer iteration i
DeltaAfter(i) == history[i].delta

ParityAfter(i) == history[i].parity_selected

\* the running variables are those of the last record between iterations
RunningIsLastRecord ==
    (pc \in {"outer", "break", "done"} /\ Len(history) > 0) =>
        /\ delta = DeltaAfter(Len(history))
        /\ parity_current = ParityAfter(Len(history))

\* every outer iteration pushes its improvement
PushesEveryImprovement ==
    /\ Len(pushed) = Len(history)
    /\ Len(trace) = Len(history)
    /\ \A i \in 1..Len(history) :
          /\ pushed[i] = history[i].improvement
          /\ history[i].improvement = ParityAfter(i) - trace[i].parity_before

\* C2 as stated: for every configuration the engine stops early exactly when
\* both conditions hold after a push, and otherwise runs all its points with
\* the early-stop flag clear.
C2_Original ==
    /\ PushesEveryImprovement
    /\ \A i \in 1..Len(trace) :
          BothConditions(i) =>
              /\ i = Len(trace)
              /\ early_stopped
              /\ pc \in {"break", "done"}
    /\ early_stopped => (Len(trace) > 0 /\ BothConditions(Len(trace)))
    /\ (pc = "done" /\ ~early_stopped) =>
          (Len(history) = config.points /\ ~result.early_stopped)

\* C2 (amended): the engine pushes every iteration's improvement and stops
\* early exactly when the dynamic inner loop is enabled and both conditions
\* hold after the push; otherwise it runs all its points with the flag clear.
C2_EarlyStop ==
    /\ PushesEveryImprovement
    /\ \A i \in 1..Len(trace) :
          (config.dynamic_inner /\ BothConditions(i)) =>
              /\ i = Len(trace)
              /\ early_stopped
              /\ pc \in {"break", "done"}
    /\ early_stopped =>
          (config.dynamic_inner /\ Len(trace) > 0 /\ BothConditions(Len(trace)))
    /\ (pc = "done" /\ early_stopped) => result.early_stopped
    /\ (pc = "done" /\ ~early_stopped) =>
          (Len(history) = config.points /\ ~result.early_stopped)

\* a run that stopped before its points were exhausted
C2_Witness ==
    /\ pc = "done"
    /\ result.early_stopped
    /\ result.iterations < config.points

\* the parity measured on the side a step's test points to
TestedParity(s) == IF s.test_direction = "Plus" THEN s.parity_plus ELSE s.parity_minus

\* the delta on the side a step's test points to
TestedDelta(i, s) ==
    IF s.test_direction = "Plus"
    THEN trace[i].delta_before + s.step
    ELSE trace[i].delta_before - s.step

\* outer iterations with one inner step whose test was significant
SignificantSingle(i) ==
    /\ config.use_statistical_test
    /\ Len(trace[i].steps) = 1
    /\ trace[i].steps[1].is_significant

\* C3 as stated: a significant single step always moves to the tested side.
C3_Original ==
    \A i \in 1..Len(trace) :
        SignificantSingle(i) =>
            /\ DeltaAfter(i) = TestedDelta(i, trace[i].steps[1])
            /\ ParityAfter(i) = TestedParity(trace[i].steps[1])

\* C3 (amended): a significant single step moves to the tested side only if
\* the parity measured there is strictly higher than the running parity; then
\* the running parity is that parity and the running delta is delta +/- step
\* (Track) or the offset +/- step (Reset).  Otherwise the parity is unchanged
\* and the delta is unchanged (Track) or 0 (Reset).
C3_SignificantMove ==
    \A i \in 1..Len(trace) :
        SignificantSingle(i) =>
            LET s == trace[i].steps[1]
                before == trace[i].delta_before
            IN  IF TestedParity(s) > trace[i].parity_before
                THEN /\ ParityAfter(i) = TestedParity(s)
                     /\ DeltaAfter(i) =
                           IF config.delta_mode = "Track"
                           THEN TestedDelta(i, s)
                           ELSE TestedDelta(i, s) - before
                ELSE /\ ParityAfter(i) = trace[i].parity_before
                     /\ DeltaAfter(i) =
                           IF config.delta_mode = "Track" THEN before ELSE 0

\* a significant Minus step that moved, and one that did not
C3_Witness ==
    /\ Len(trace) >= 2
    /\ SignificantSingle(1)
    /\ trace[1].steps[1].test_direction = "Minus"
    /\ ParityAfter(1) > trace[1].parity_before
    /\ SignificantSingle(2)
    /\ ParityAfter(2) = trace[2].parity_before

\* outer iterations whose every inner step was tested and was neither
\* significant nor a tie
AllInsignificant(i) ==
    /\ config.use_statistical_test
    /\ \A k \in 1..Len(trace[i].steps) :
          /\ ~trace[i].steps[k].is_significant
          /\ ~trace[i].steps[k].is_tie

\* C4 as stated: such an iteration leaves delta and parity unchanged in both
\* accumulation modes.
C4_Original ==
    \A i \in 1..Len(trace) :
        AllInsignificant(i) =>
            /\ DeltaAfter(i) = trace[i].delta_before
            /\ ParityAfter(i) = trace[i].parity_before
            /\ history[i].improvement = 0
            /\ ~history[i].is_significant

\* C4 (amended): such an iteration leaves the running parity unchanged,
\* records improvement 0 and is_significant = false; the running delta is
\* unchanged in Track mode and becomes 0 in Reset mode.
C4_NoMove ==
    \A i \in 1..Len(trace) :
        AllInsignificant(i) =>
            /\ DeltaAfter(i) =
                  IF config.delta_mode = "Track" THEN trace[i].delta_before ELSE 0
            /\ ParityAfter(i) = trace[i].parity_before
            /\ history[i].improvement = 0
            /\ ~history[i].is_significant

\* an insignificant iteration with two inner steps, from a non-zero delta
C4_Witness ==
    /\ Len(trace) >= 2
    /\ AllInsignificant(2)
    /\ Len(trace[2].steps) = 2
    /\ trace[2].delta_before # 0
    /\ config.delta_mode = "Track"

\* outer iterations with one untested inner step
UntestedSingle(i) ==
    /\ ~config.use_statistical_test
    /\ Len(trace[i].steps) = 1

\* the side with the higher measured parity (Minus when they are equal)
BetterParity(s) == IF s.parity_plus > s.parity_minus THEN s.parity_plus ELSE s.parity_minus

BetterDelta(i, s) ==
    IF s.parity_plus > s.parity_minus
    THEN trace[i].delta_before + s.step
    ELSE trace[i].delta_before - s.step

\* C5 as stated: without the statistical test a single step always moves.
C5_Original ==
    \A i \in 1..Len(trace) :
        UntestedSingle(i) =>
            /\ DeltaAfter(i) = BetterDelta(i, trace[i].steps[1])
            /\ ParityAfter(i) = BetterParity(trace[i].steps[1])

\* C5 (amended): without the statistical test a single step moves to the side
\* with the higher parity (minus when equal) only if that parity is strictly
\* higher than the running parity; then the running parity is that parity and
\* the running delta is delta +/- step (Track) or the offset +/- step (Reset).
\* Otherwise the parity is unchanged and the delta is unchanged (Track) or 0
\* (Reset).
C5_AlwaysSelectBetter ==
    \A i \in 1..Len(trace) :
        UntestedSingle(i) =>
            LET s == trace[i].steps[1]
                before == trace[i].delta_before
            IN  IF BetterParity(s) > trace[i].parity_before
                THEN /\ ParityAfter(i) = BetterParity(s)
                     /\ DeltaAfter(i) =
                           IF config.delta_mode = "Track"
                           THEN BetterDelta(i, s)
                           ELSE BetterDelta(i, s) - before
                ELSE /\ ParityAfter(i) = trace[i].parity_before
                     /\ DeltaAfter(i) =
                           IF config.delta_mode = "Track" THEN before ELSE 0

\* an untested step that moved plus, then one that moved minus
C5_Witness ==
    /\ Len(trace) >= 2
    /\ UntestedSingle(1)
    /\ DeltaAfter(1) = trace[1].delta_before + trace[1].steps[1].step
    /\ UntestedSingle(2)
    /\ ParityAfter(2) > trace[2].parity_before
    /\ DeltaAfter(2) = trace[2].delta_before - trace[2].steps[1].step

\* the highest parity among the starting point and the candidates of iteration i
BestParitySeen(i) ==
    LET ps == {trace[i].parity_before} \cup
              { trace[i].steps[k].cand_parity : k \in 1..Len(trace[i].steps) }
    IN  CHOOSE m \in ps : \A x \in ps : x <= m

\* the delta at which that parity was first seen
BestDeltaSeen(i) ==
    IF BestParitySeen(i) = trace[i].parity_before
    THEN trace[i].delta_before
    ELSE LET ks == { k \in 1..Len(trace[i].steps) :
                       trace[i].steps[k].cand_parity = BestParitySeen(i) }
             first == CHOOSE k \in ks : \A x \in ks : k <= x
         IN  trace[i].steps[first].cand_delta

\* C6: after each outer iteration the running parity is the best parity seen
\* across its inner steps, and the running delta is the best delta (Track) or
\* the best delta minus the previous delta (Reset).
C6_BestApplied ==
    /\ RunningIsLastRecord
    /\ \A i \in 1..Len(trace) :
          /\ ParityAfter(i) = BestParitySeen(i)
          /\ DeltaAfter(i) =
                IF config.delta_mode = "Track"
                THEN BestDeltaSeen(i)
                ELSE BestDeltaSeen(i) - trace[i].delta_before

\* a Reset-mode iteration from a non-zero delta whose best is its second step
C6_Witness ==
    /\ config.delta_mode = "Reset"
    /\ Len(trace) >= 2
    /\ pc = "outer"
    /\ trace[2].delta_before # 0
    /\ Len(trace[2].steps) = 2
    /\ trace[2].steps[2].cand_parity > trace[2].steps[1].cand_parity
    /\ trace[2].steps[2].cand_parity > trace[2].parity_before
    /\ delta = trace[2].steps[2].cand_delta - trace[2].delta_before

\* the depth-corrected threshold base * 4 / (N - 1)
DepthCorrected(base, n) == <<base[1] * 4, base[2] * (n - 1)>>

\* qubit counts at which threshold_for_qubits is evaluated
MaxQubits == 9

ThresholdForQubitsOk ==
    \A n \in 2..MaxQubits :
        RatEq(threshold_for_qubits(n), DepthCorrected(<<30, 1000>>, n))

RECURSIVE SumSeq(_)
SumSeq(q) == IF q = <<>> THEN 0 ELSE Head(q) + SumSeq(Tail(q))

\* the last (at most) three improvements pushed since construction or reset
LastThree == { pushed[k] : k \in (Max2(Len(pushed) - 3, 0) + 1)..Len(pushed) }

\* x < t for a signed parity-scale x and a rational t > 0
SignedBelow(x, t) == x < 0 \/ RatLT(ParityRat(x), t)

\* |x| < t
MagnitudeBelow(x, t) == RatLT(ParityRat(Abs(x)), t)

\* 1.5 times the absolute threshold
OneAndAHalf(t) == <<t[1] * 3, t[2] * 2>>

CountFormula(g, thr, inner_max) ==
    Min2(inner_max, Min2(5, Max2(1, 1 + 2 * RatFloorDiv(RatAbs(g), thr))))

CountInRange ==
    call.op = "compute_count" =>
        /\ call.result >= 1
        /\ call.result <= Min2(5, call.inner_max)

SameSeededInputs(i, j) ==
    /\ runs[i].backend.seed # NoSeed
    /\ runs[i].backend.seed = runs[j].backend.seed
    /\ runs[i].backend.noise_model = runs[j].backend.noise_model
    /\ runs[i].circuit = runs[j].circuit
    /\ runs[i].shots = runs[j].shots
    /\ runs[i].result.ok
    /\ runs[j].result.ok

\* C1: for every circuit, shot count and seed s, two executions on a
\* simulator backend seeded with the same s and carrying the same noise
\* model return identical counts mappings.
C1_Deterministic ==
    \A i, j \in 1..Len(runs) :
        SameSeededInputs(i, j) => runs[i].result.counts = runs[j].result.counts

\* two executions of the same circuit with the same seed on a noisy backend,
\* whose shots landed on more than one bitstring
C1_Witness ==
    \E i, j \in 1..Len(runs) :
        /\ i < j
        /\ SameSeededInputs(i, j)
        /\ runs[i].backend.noise_model # NoiseModel_ideal
        /\ runs[i].shots >= 2
        /\ Cardinality(DOMAIN runs[i].result.counts) >= 2
        /\ runs[i].result.counts = runs[j].result.counts

\* ------------------------------------------------------------------------
\* Configuration validation and the engine
\* ------------------------------------------------------------------------
\* C11: for every TqqcConfig that violates a validation rule (qubits < 2,
\* noise outside [0, 0.06], basis length different from the qubit count,
\* points = 0, shots = 0, inner_max = 0, step_amp <= 0, sig_level out of
\* range), running the engine on it fails with a validation error before any
\* backend execute call is made: no execute call is counted and no
\* optimization result is produced.
C11_Original ==
    validate(config) # "Ok" => (executes = 0 /\ ~result.done)

\* ------------------------------------------------------------------------
\* Circuit and CircuitBuilder
\* ------------------------------------------------------------------------
\* the gate names a qubit index the circuit of n qubits does not have
OutOfRange(gate, n) == \E i \in DOMAIN gate.qubits : gate.qubits[i] >= n

\* C12: building a circuit through the fluent CircuitBuilder with any gate
\* whose qubit index is >= the builder's qubit count is rejected with an
\* error at build time; such input never yields a circuit.
C12_Original ==
    (builder.stage = "built" /\ builder.rejected > 0) => ~builder.ok

\* C13: in every Circuit reachable through from_gates, add_gate, add_gates
\* and clear, every gate's qubit indices are < the circuit's qubit count; an
\* add_gate call with an out-of-range index returns an error and leaves the
\* gate sequence unchanged.
C13_GatesInRange ==
    /\ \A k \in DOMAIN circ.gates : ~OutOfRange(circ.gates[k], circ.num_qubits)
    /\ (circ_last.op = "add_gate"
            /\ OutOfRange(circ_last.gate, circ_last.before.num_qubits))
        => (~circ_last.ok /\ circ.gates = circ_last.before.gates)

\* a two-qubit gate whose second qubit only is out of range was refused by a
\* circuit used directly that already held a gate
C13_Witness ==
    /\ builder.stage = "none"
    /\ circ_last.op = "add_gate"
    /\ ~circ_last.ok
    /\ circ_last.gate.name = "Cnot"
    /\ circ_last.gate.qubits[1] < circ.num_qubits
    /\ Len(circ.gates) >= 1
    /\ circ.gates = circ_last.before.gates

\* ------------------------------------------------------------------------
\* NoiseModel
\* ------------------------------------------------------------------------
\* t2 <= 2 * t1 over the extended reals
AtMostTwice(t2, t1) ==
    IF ~t1.finite THEN TRUE
    ELSE IF ~t2.finite THEN FALSE
    ELSE t2.us <= 2 * t1.us

\* C14: every NoiseModel value obtainable through the public constructors
\* and the with_* builder methods satisfies T2 <= 2*T1; an attempt to obtain
\* a model with T2 > 2*T1 is rejected with an error.
C14_Original == AtMostTwice(nmodel.t2_us, nmodel.t1_us)

\* ------------------------------------------------------------------------
\* SimulatorBackend::execute: the qubit check and the counts
\* ------------------------------------------------------------------------
\* C15: execute fails with a qubit-out-of-range error whenever the circuit's
\* qubit count exceeds the backend's qubit count, and succeeds with respect
\* to this check whenever it does not: a call that got past the check is
\* simulating a circuit that fits, and it returns Ok.
C15_QubitLimit ==
    /\ \A i \in 1..Len(runs) :
        IF runs[i].circuit.num_qubits > runs[i].backend.num_qubits
        THEN ~runs[i].result.ok /\ runs[i].result.error = "QubitOutOfRange"
        ELSE runs[i].result.ok
    /\ exec # NoExec => exec.circuit.num_qubits <= backend.num_qubits

\* the same backend refused a circuit one qubit too wide and ran a circuit
\* exactly as wide as itself
C15_Witness ==
    \E i, j \in 1..Len(runs) :
        /\ runs[i].backend.num_qubits = runs[j].backend.num_qubits
        /\ runs[i].circuit.num_qubits = runs[i].backend.num_qubits + 1
        /\ ~runs[i].result.ok
        /\ runs[j].circuit.num_qubits = runs[j].backend.num_qubits
        /\ runs[j].result.ok
        /\ runs[j].shots >= 1

\* the sum of the values of a counts mapping
RECURSIVE CountsTotal(_)
CountsTotal(counts) ==
    IF DOMAIN counts = {} THEN 0
    ELSE LET b == CHOOSE k \in DOMAIN counts : TRUE
         IN  counts[b] + CountsTotal([ k \in DOMAIN counts \ {b} |-> counts[k] ])

\* the number a string of binary digits denotes, read most significant first
RECURSIVE BitsValue(_)
BitsValue(key) ==
    IF key = <<>> THEN 0
    ELSE 2 * BitsValue(SubSeq(key, 1, Len(key) - 1)) + key[Len(key)]

\* C16: for every successful execute(circuit, shots), the values of the
\* returned counts mapping sum to exactly shots, and every key is an
\* MSB-first binary string (of a measured result) whose length equals the
\* qubit count.
C16_Original ==
    \A i \in 1..Len(runs) :
        runs[i].result.ok =>
            /\ CountsTotal(runs[i].result.counts) = runs[i].shots
            /\ \A key \in DOMAIN runs[i].result.counts :
                /\ \A p \in DOMAIN key : key[p] \in {0, 1}
                /\ BitsValue(key) \in runs[i].measured
                /\ Len(key) = runs[i].circuit.num_qubits

\* ------------------------------------------------------------------------
\* StatisticalTest
\* ------------------------------------------------------------------------
\* |parity_plus - parity_minus| < 1e-9 for the arguments of the last call
WithinTie == FracGT(1, 1000000000, Abs(call.parity_plus - call.parity_minus), ParityScale)

\* z > critical for the arguments of the last call
AboveCritical ==
    ZGreater(compute_z_from_parity(call.parity_plus, call.parity_minus, call.shots),
             z_critical(StatisticalTest_new(call.mode, call.level), call.shots,
                        call.noise))

\* C17: StatisticalTest::test returns exactly one of three outcomes: tie if
\* and only if |parity_plus - parity_minus| < 1e-9; otherwise significant if
\* and only if z > critical, with direction Plus when parity_plus >
\* parity_minus and Minus otherwise; otherwise insignificant with no direction.
C17_ThreeOutcomes ==
    call.op = "test" =>
        LET r == call.result
        IN  /\ r.is_tie <=> WithinTie
            /\ r.is_tie => (~r.is_significant /\ r.direction = "None")
            /\ ~r.is_tie => (r.is_significant <=> AboveCritical)
            /\ r.is_significant =>
                   r.direction = IF call.parity_plus > call.parity_minus
                                 THEN "Plus" ELSE "Minus"
            /\ ~r.is_significant => r.direction = "None"

\* test(0.8, 0.2, 8192 shots, noise 0.02) at level 0.95 is significant with
\* direction Plus
C17_Witness ==
    /\ call.op = "test"
    /\ call.mode = "Fixed"
    /\ call.level = 950
    /\ call.parity_plus = 80
    /\ call.parity_minus = 20
    /\ call.shots = 8192
    /\ call.noise = 20
    /\ call.result.is_significant
    /\ ~call.result.is_tie
    /\ call.result.direction = "Plus"

\* the level of the last call after the three adjustments and the clamp
AdjustedLevel ==
    LET a == call.level + (IF call.noise > 20 THEN 25 ELSE 0)
                        + (IF call.shots < 4096 THEN 25 ELSE 0)
                        - (IF call.shots >= 16384 THEN 50 ELSE 0)
    IN  IF a < 900 THEN 900 ELSE IF a > 990 THEN 990 ELSE a

\* the fixed-mode quantile of a level: 0.90 -> 1.645, 0.95 -> 1.96, 0.99 -> 2.575
FixedQuantile(level) == fixed_critical(StatisticalTest_new("Fixed", level))

\* C18 as stated: in adaptive mode the critical value equals the fixed-mode
\* quantile of the adjusted level, for every level, shots and noise.
C18_Original ==
    (call.op = "z_critical" /\ call.mode = "Adaptive") =>
        call.result = FixedQuantile(AdjustedLevel)

\* C18 (amended): in adaptive mode the critical value is 2.24 when the
\* adjusted level (base level plus 0.025 if noise > 0.02, plus 0.025 if shots
\* < 4096, minus 0.05 if shots >= 16384, clamped to [0.90, 0.99]) lies in
\* [0.975, 0.99), and the fixed-mode quantile of the adjusted level otherwise.
C18_AdaptiveCritical ==
    (call.op = "z_critical" /\ call.mode = "Adaptive") =>
        call.result = IF AdjustedLevel >= 975 /\ AdjustedLevel < 990
                      THEN 2240
                      ELSE FixedQuantile(AdjustedLevel)

\* level 0.95 with few shots and low noise: the adjusted level is 0.975 and
\* the critical value 2.24
C18_Witness ==
    /\ call.op = "z_critical"
    /\ call.mode = "Adaptive"
    /\ call.level = 950
    /\ call.shots < 4096
    /\ call.noise <= 20
    /\ AdjustedLevel = 975
    /\ call.result = 2240

\* ------------------------------------------------------------------------
\* Zero standard error in the engine (specification ZeroSpec)
\* ------------------------------------------------------------------------
\* every inner step taken so far, finished iterations first
AllSteps ==
    UNION { { trace[i].steps[k] : k \in 1..Len(trace[i].steps) } : i \in 1..Len(trace) }
        \cup { it.steps[k] : k \in 1..Len(it.steps) }

\* the standard error of the step's two parities is zero: both variances
\* 1 - p^2 vanish, or there are no shots
ZeroStandardError(s) ==
    \/ config.shots = 0
    \/ (s.parity_plus * s.parity_plus = ParityScale * ParityScale
        /\ s.parity_minus * s.parity_minus = ParityScale * ParityScale)

\* a tested step with zero standard error has been taken
ZeroSeen == \E s \in AllSteps : s.tested /\ ZeroStandardError(s)

\* a tested step with zero standard error reports z = 0 and is not significant
ZeroIsNeutral ==
    \A s \in AllSteps :
        (s.tested /\ ZeroStandardError(s)) => (s.z_sq[1] = 0 /\ ~s.is_significant)

\* C19: when the standard error of the two parity measurements is zero (or
\* shots is 0), the z-score is defined as 0, the test result is never
\* significant, and no error is raised, so an optimization run in which this
\* happens still completes with a result.
C19_ZeroIsNeutral ==
    /\ []ZeroIsNeutral
    /\ ZeroSeen ~> (pc = "done" /\ result.done)

\* a finished run whose first step measured parities +1 and -1: no tie, zero
\* standard error, z = 0, not significant
C19_Witness ==
    /\ pc = "done"
    /\ result.done
    /\ Len(trace) >= 1
    /\ trace[1].steps[1].tested
    /\ trace[1].steps[1].parity_plus = 100
    /\ trace[1].steps[1].parity_minus = -100
    /\ ~trace[1].steps[1].is_tie
    /\ trace[1].steps[1].z_sq[1] = 0
    /\ ~trace[1].steps[1].is_significant

\* ------------------------------------------------------------------------
\* ASAP scheduling (specification SchedSpec)
\* ------------------------------------------------------------------------
\* the gates scheduled so far, in circuit order
Scheduled == IF sched.stage = "running" THEN sched.scheduled_gates
             ELSE IF sched.stage = "done" THEN sched.schedule.gates
             ELSE <<>>

\* the qubits a gate occupies: its own, or all of them for a zero-qubit op
Touched(gate) ==
    IF gate.qubits = <<>> THEN 0..(sched.circuit.num_qubits - 1)
    ELSE { gate.qubits[i] : i \in DOMAIN gate.qubits }

\* t is the largest availability in avail over the qubits qs, 0 if there is none
IsMaxOver(t, avail, qs) ==
    IF qs = {} THEN t = 0
    ELSE /\ \E q \in qs : avail[q] = t
         /\ \A q \in qs : avail[q] <= t

\* C20: in an ASAP schedule, for each gate in circuit order the start time
\* is the maximum current availability over the qubits it touches (0 for
\* fresh qubits; the maximum over all qubits for a zero-qubit op such as
\* measure-all), the end time is start + duration, and afterwards the
\* availability of every touched qubit (all qubits for a zero-qubit op)
\* equals that end time.
C20_Asap ==
    \A k \in 1..Len(Scheduled) :
        LET g == Scheduled[k]
        IN  /\ g.gate = sched.circuit.gates[k]
            /\ sched.seen[k].before =
                   (IF k = 1 THEN [ q \in 0..(sched.circuit.num_qubits - 1) |-> 0 ]
                    ELSE sched.seen[k - 1].after)
            /\ IsMaxOver(g.start_time_ns, sched.seen[k].before, Touched(g.gate))
            /\ g.end_time_ns = g.start_time_ns + gate_duration(sched.gate_times, g.gate)
            /\ \A q \in Touched(g.gate) : sched.seen[k].after[q] = g.end_time_ns

\* h(1), cnot(0, 1), measure-all on default IBM times: the cnot waits for
\* qubit 1 although qubit 0 is fresh, measure-all waits for all three qubits
C20_Witness ==
    /\ sched.stage = "done"
    /\ sched.gate_times = default_ibm
    /\ sched.circuit.num_qubits = 3
    /\ sched.circuit.gates = <<MkGate("H", <<1>>), MkGate("Cnot", <<0, 1>>),
                               MkGate("MeasureAll", <<>>)>>
    /\ sched.schedule.gates[1].start_time_ns = 0
    /\ sched.schedule.gates[2].start_time_ns = 35
    /\ sched.schedule.gates[2].end_time_ns = 335
    /\ sched.schedule.gates[3].start_time_ns = 335
    /\ sched.schedule.gates[3].end_time_ns = 5335
    /\ \A q \in 0..2 : sched.schedule.qubit_end_times[q] = 5335

\* the durations of the scheduled gates that touched qubit q
RECURSIVE TouchedTime(_, _)
TouchedTime(q, k) ==
    IF k = 0 THEN 0
    ELSE TouchedTime(q, k - 1)
         + (IF q \in Touched(Scheduled[k].gate)
            THEN Scheduled[k].end_time_ns - Scheduled[k].start_time_ns
            ELSE 0)

\* C21: for every schedule and every qubit q, idle_times()[q] equals q's
\* final available time minus the sum of the durations of all gates that
\* touched q, a zero-qubit op such as measure-all touching every qubit.
C21_Original ==
    (sched.stage = "done" /\ sched.idle # None) =>
        \A q \in DOMAIN sched.schedule.qubit_end_times :
            sched.idle[1][q] =
                sched.schedule.qubit_end_times[q] - TouchedTime(q, Len(Scheduled))

\* ------------------------------------------------------------------------
\* Parity probabilities (specification FnSpec)
\* ------------------------------------------------------------------------
\* two f64 values are numbers less than 1e-9 apart
Within(x, y) ==
    /\ x.kind = "num"
    /\ y.kind = "num"
    /\ F64Sub(x, y).kind = "num"
    /\ RatLT(RatAbs(F64Sub(x, y).val), <<1, 1000000000>>)

\* p_even + p_odd = 1 and expectation = p_even - p_odd for the call in hand
ParityRelations ==
    /\ Within(F64Add(call.p_even, call.p_odd), Num(<<1, 1>>))
    /\ Within(call.expectation, F64Sub(call.p_even, call.p_odd))

\* C22: for every counts mapping and every execution result,
\* p_even + p_odd = 1 and the parity expectation equals p_even - p_odd
\* within 1e-9, for the Parity functions and for the ExecutionResult
\* methods, also when the counts total differs from the recorded shots or
\* the counts are empty.
C22_Original ==
    call.op \in {"parity", "execution_result"} => ParityRelations

\* ------------------------------------------------------------------------
\* Gate noise (specification GateSpec)
\* ------------------------------------------------------------------------
\* the error probability of the noise model for a gate of this many qubits
RateByArity(nm, gate) ==
    CASE Len(gate.qubits) = 1 -> nm.gate_error_1q
      [] Len(gate.qubits) = 2 -> nm.gate_error_2q
      [] OTHER -> 0

\* the state after the Pauli p on qubit q
PauliOn(state, p, q) ==
    CASE p = "X" -> apply_x(state, q, 2)
      [] p = "Y" -> apply_y(state, q, 2)
      [] p = "Z" -> apply_z(state, q, 2)

\* the qubits and the Paulis a noise event on the gate of the call can
\* choose, over every state of the generator
ErrorTargets ==
    { apply_random_error(call.self, call.state, call.gate, 2, r).target :
        r \in 0..(RngMod - 1) }

ErrorPaulis ==
    { apply_random_error(call.self, call.state, call.gate, 2, r).pauli :
        r \in 0..(RngMod - 1) }

GateQubits == { call.gate.qubits[i] : i \in DOMAIN call.gate.qubits }

\* a noise event applies one Pauli to a qubit of the gate and nothing else
OnePauliInstead ==
    call.result.fired =>
        /\ call.result.pauli \in {"X", "Y", "Z"}
        /\ call.result.target \in GateQubits
        /\ call.result.state = PauliOn(call.state, call.result.pauli, call.result.target)

\* C23: for every gate application the error probability is looked up by
\* the gate's arity from the noise model; when a noise event fires the
\* intended operation is not applied and exactly one Pauli (X, Y or Z, each
\* selectable) is applied to one of the gate's qubits, any of which can be
\* the target; with error probability 0 the intended operation is always
\* applied.
C23_Original ==
    call.op = "apply_gate" =>
        /\ call.result.error_rate = RateByArity(call.self.noise_model, call.gate)
        /\ OnePauliInstead
        /\ call.result.error_rate > 0 =>
               /\ ErrorPaulis = {"X", "Y", "Z"}
               /\ ErrorTargets = GateQubits
        /\ call.result.error_rate = 0 =>
               /\ ~call.result.fired
               /\ call.result.state = apply_ideal(call.state, call.gate, 2)

\* ------------------------------------------------------------------------
\* The outputs and the measurements of optimize (specification Spec)
\* ------------------------------------------------------------------------
\* the baseline is the first measure_parity call of the run and no other
BaselineFirstOnly ==
    /\ pc # "start" => parity_calls # <<>>
    /\ \A k \in DOMAIN parity_calls : (parity_calls[k].site = "baseline") <=> (k = 1)
    /\ history # <<>> => parity_calls[1].site = "baseline"

\* C24: in every optimize run the baseline parity is measured exactly once,
\* at delta = 0, before the first outer iteration; the reported improvement
\* is the final parity minus the baseline parity; the reported iteration
\* count is the length of the iteration history, at most `points`.
C24_BaselineAndOutputs ==
    /\ BaselineFirstOnly
    /\ parity_calls # <<>> =>
           /\ parity_calls[1].delta = 0
           /\ parity_calls[1].parity = parity_baseline
    /\ result.done =>
           /\ result.parity_baseline = parity_calls[1].parity
           /\ result.improvement = result.parity_final - result.parity_baseline
           /\ result.iterations = Len(result.history)
           /\ result.iterations <= config.points

\* a finished run that started at delta_init = 0.05: the baseline was taken
\* at 0, the first inner step at 0.05 +/- 0.12, and the parity improved
C24_Witness ==
    /\ result.done
    /\ config.delta_init = 50000
    /\ parity_calls[1].delta = 0
    /\ parity_calls[2].delta = 170000
    /\ parity_calls[3].delta = -70000
    /\ result.iterations = 1
    /\ result.improvement > 0

\* every inner step taken so far in the order taken, each with its index j in
\* its inner loop and the running delta its outer iteration started from
RECURSIVE StepsThrough(_)
StepsThrough(i) ==
    IF i = 0 THEN <<>>
    ELSE StepsThrough(i - 1)
         \o [ j \in 1..Len(trace[i].steps) |->
                [ j |-> j - 1, from |-> trace[i].delta_before, s |-> trace[i].steps[j] ] ]

StepsInOrder ==
    StepsThrough(Len(trace))
        \o [ j \in 1..Len(it.steps) |-> [ j |-> j - 1, from |-> delta, s |-> it.steps[j] ] ]

\* C25: for each inner step j (0-indexed) of an outer iteration the step
\* size is step_amp * 0.9^j, and the engine measures parity at exactly
\* delta + step_j and delta - step_j: two backend executions per inner step.
C25_InnerMeasurements ==
    /\ executes = Len(parity_calls)
    /\ pc # "start" => Len(parity_calls) = 1 + 2 * Len(StepsInOrder)
    /\ \A n \in DOMAIN StepsInOrder :
          LET t == StepsInOrder[n]
          IN  /\ t.s.step * Pow(10, t.j) = config.step_amp * Pow(9, t.j)
              /\ parity_calls[2 * n].site = "plus"
              /\ parity_calls[2 * n].delta = t.from + t.s.step
              /\ parity_calls[2 * n].parity = t.s.parity_plus
              /\ parity_calls[2 * n + 1].site = "minus"
              /\ parity_calls[2 * n + 1].delta = t.from - t.s.step
              /\ parity_calls[2 * n + 1].parity = t.s.parity_minus

\* a second outer iteration that started from a moved delta and took two
\* inner steps, of 0.12 and 0.108
C25_Witness ==
    /\ Len(trace) = 2
    /\ trace[2].delta_before # 0
    /\ Len(trace[2].steps) = 2
    /\ trace[2].steps[1].step = 120000
    /\ trace[2].steps[2].step = 108000
    /\ parity_calls[6].delta = trace[2].delta_before + 108000
    /\ parity_calls[7].delta = trace[2].delta_before - 108000

\* the sum of the inner counts of the first k history records
RECURSIVE InnerCountSum(_, _)
InnerCountSum(h, k) ==
    IF k = 0 THEN 0 ELSE InnerCountSum(h, k - 1) + h[k].inner_count

\* C26: for every completed optimize run, total_inner_iterations >=
\* iterations: every outer iteration performs at least one inner step, and
\* total_inner_iterations is the sum of the inner counts recorded in the
\* history.
C26_Original ==
    result.done =>
        /\ result.total_inner_iterations >= result.iterations
        /\ \A i \in DOMAIN result.history : result.history[i].inner_count >= 1
        /\ \A i \in DOMAIN trace : Len(trace[i].steps) >= 1
        /\ \A i \in DOMAIN result.history :
              result.history[i].inner_count = Len(trace[i].steps)
        /\ result.total_inner_iterations =
               InnerCountSum(result.history, Len(result.history))

\* ------------------------------------------------------------------------
\* Pipeline stages (specification PipeSpec)
\* ------------------------------------------------------------------------
\* the position of a stage in Initial -> Calibrated -> CircuitBuilt ->
\* Scheduled -> Optimized
StageRank(stage) ==
    CASE stage = "Initial" -> 0
      [] stage = "Calibrated" -> 1
      [] stage = "CircuitBuilt" -> 2
      [] stage = "Scheduled" -> 3
      [] stage = "Optimized" -> 4

\* one call that is not reset leaves the stage where it was or further on;
\* reset leaves the initial state
StageAdvances ==
    /\ pipeline'.last \in {"calibrate", "build_circuit", "schedule", "optimize", "run"} =>
           StageRank(pipeline'.state.stage) >= StageRank(pipeline.state.stage)
    /\ pipeline'.last = "reset" =>
           pipeline'.state = PipelineState_new(pipeline.state.config)

\* C27: the pipeline stage only ever advances along Initial -> Calibrated
\* -> CircuitBuilt -> Scheduled -> Optimized: for any sequence of
\* calibrate, build_circuit, schedule, optimize and run calls the stage
\* never moves to an earlier stage, and only reset returns it to Initial,
\* clearing the intermediate state.
C27_Original == [][StageAdvances]_vars

\* the running parity before outer iteration i
ParityBefore(i) == IF i = 1 THEN parity_baseline ELSE history[i - 1].parity_selected

\* C28: during optimize the running parity never decreases: every recorded
\* per-iteration improvement is >= 0, each history record's parity_selected
\* is >= the previous record's, and the final parity is >= the baseline
\* parity.
C28_NeverDecreases ==
    /\ \A i \in DOMAIN history :
          /\ history[i].improvement >= 0
          /\ history[i].improvement = history[i].parity_selected - ParityBefore(i)
          /\ history[i].parity_selected >= ParityBefore(i)
    /\ pc # "start" => parity_current >= parity_baseline
    /\ pc = "inner" => it.best_parity >= parity_current
    /\ result.done =>
          /\ result.parity_final >= result.parity_baseline
          /\ result.improvement >= 0

\* a finished run whose first iteration improved the parity and whose second
\* measured only lower parities and kept it
C28_Witness ==
    /\ result.done
    /\ Len(history) >= 2
    /\ history[1].improvement > 0
    /\ history[2].improvement = 0
    /\ \A k \in DOMAIN trace[2].steps :
          /\ trace[2].steps[k].parity_plus < history[1].parity_selected
          /\ trace[2].steps[k].parity_minus < history[1].parity_selected
          /\ trace[2].steps[k].cand_parity < history[1].parity_selected
    /\ result.parity_final > result.parity_baseline

\* ------------------------------------------------------------------------
\* Exclusive use of qubits in an ASAP schedule (specification SchedSpec)
\* ------------------------------------------------------------------------
\* the gates at positions i < j of the schedule share a qubit
ShareQubit(i, j) == Touched(Scheduled[i].gate) \cap Touched(Scheduled[j].gate) # {}

\* the gates at positions i < j occupy disjoint intervals, in circuit order
Disjoint(i, j) ==
    /\ ~overlaps(Scheduled[i], Scheduled[j].start_time_ns, Scheduled[j].end_time_ns)
    /\ Scheduled[i].start_time_ns <= Scheduled[j].start_time_ns

\* every gate before position k ends at or before its start and every gate
\* after it starts at or after its end
Alone(k) ==
    /\ \A i \in 1..(k - 1) : Scheduled[i].end_time_ns <= Scheduled[k].start_time_ns
    /\ \A j \in (k + 1)..Len(Scheduled) :
          Scheduled[j].start_time_ns >= Scheduled[k].end_time_ns

\* C29: in every ASAP schedule, any two gates that share a qubit occupy
\* non-overlapping time intervals and start in circuit order, and a
\* zero-qubit global op (measure-all) overlaps no other gate: every earlier
\* gate ends at or before its start and every later gate starts at or after
\* its end.
C29_Original ==
    /\ \A j \in 1..Len(Scheduled) : \A i \in 1..(j - 1) :
          ShareQubit(i, j) => Disjoint(i, j)
    /\ \A k \in 1..Len(Scheduled) :
          Scheduled[k].gate.qubits = <<>> => Alone(k)

\* ------------------------------------------------------------------------
\* Properties of the optimizer (specification OptSpec)
\* ------------------------------------------------------------------------
\* the two runs were given the same parity wherever they measured the same
\* circuit, as a simulator seeded alike for every execute gives them
SameSampling(a, b) ==
    \A k \in DOMAIN a.measured, l \in DOMAIN b.measured :
        a.measured[k].delta = b.measured[l].delta
            => a.measured[k].parity = b.measured[l].parity

\* C30 as the specification states it: two optimize runs of an optimizer
\* whose NisoConfig carries a seed return the same optimization result
\* (history, final delta and parities) whenever the seeded simulator gave
\* them the same samples
C30_Original ==
    \A i \in DOMAIN optimizer.results, j \in DOMAIN optimizer.results :
        ( /\ optimizer.config.seed # None
          /\ optimizer.results[i].ok
          /\ optimizer.results[j].ok
          /\ SameSampling(optimizer.results[i], optimizer.results[j]) )
            => optimizer.results[i].tqqc_result = optimizer.results[j].tqqc_result

====
